---- MODULE Spec2Model ----
(***************************************************************************)
(* A model of the Akvarium simulation engine: the bitECS component store,  *)
(* the fixed-step tick scheduler (loop.ts), the boids kernel (boids.wgsl)  *)
(* with its CPU fallback (systems.ts), metabolism, foraging, the social    *)
(* rule engine with its spatial grid, the festival state machine, and      *)
(* snapshot persistence.                                                   *)
(*                                                                         *)
(* Numbers.  The program computes in f32/f64; the model computes in        *)
(* fixed point with integers:                                              *)
(*   - positions, velocities and the kernel's parameters in 1/FP units,    *)
(*   - Energy in units of BASAL_METABOLISM_RATE (0.05, so 20 per point),   *)
(*   - Mood.happiness and relationship weights in hundredths,              *)
(*   - Stomach.amountToDigest in whole amounts,                            *)
(*   - times in milliseconds.                                              *)
(***************************************************************************)
EXTENDS Integers, Sequences, FiniteSets, TLC

(***************************************************************************)
(* Bounds of the model.                                                    *)
(***************************************************************************)
\* Entities created by initializeEntities (10000 in the program).
NUM_ENTITIES == 2
\* Ticks a behaviour runs for.
MaxTicks == 3
\* Wall-clock horizon of the scheduler, in milliseconds.
MaxTime == 400
\* Autosaves and load requests within the horizon.
MaxSaves == 1
\* saveState calls followed where the autosave timer is looked at on its own.
MaxTimerSaves == 3
MaxLoads == 1

\* The ids of the entity store: those of the initial entities and one more
\* (ids handed out by addEntity after resetWorld are fresh or recycled).
Ids == 0 .. NUM_ENTITIES

(***************************************************************************)
(* Fixed point                                                             *)
(***************************************************************************)
FP == 100
ENERGY_UNIT == 20
MOOD_UNIT == 100

Abs(n) == IF n < 0 THEN -n ELSE n
Max2(a, b) == IF a >= b THEN a ELSE b
Min2(a, b) == IF a <= b THEN a ELSE b
Sign(n) == IF n < 0 THEN -1 ELSE 1

\* Division that rounds toward zero (the nearest the model comes to an f32
\* quotient), and floor division (Math.floor of a quotient), d > 0.
DivT(n, d) == Sign(n) * (Abs(n) \div d)
DivF(n, d) == n \div d

RECURSIVE ISqrtB(_, _, _)
ISqrtB(n, lo, hi) ==
    IF lo >= hi THEN lo
    ELSE LET mid == (lo + hi + 1) \div 2
         IN  IF mid * mid <= n THEN ISqrtB(n, mid, hi) ELSE ISqrtB(n, lo, mid - 1)
\* floor(sqrt(n)), n >= 0
ISqrt(n) == ISqrtB(n, 0, Min2(n, 46340))

Vec3(x, y, z) == <<x, y, z>>
Zero3 == <<0, 0, 0>>
VAdd(a, b) == <<a[1] + b[1], a[2] + b[2], a[3] + b[3]>>
VSub(a, b) == <<a[1] - b[1], a[2] - b[2], a[3] - b[3]>>
Dot(a, b) == a[1] * b[1] + a[2] * b[2] + a[3] * b[3]
\* vec * (num/den)
VScale(a, num, den) == <<DivT(a[1] * num, den), DivT(a[2] * num, den), DivT(a[3] * num, den)>>

RECURSIVE SetToSortedSeq(_)
\* bitECS queries are iterated here in ascending entity id.
SetToSortedSeq(S) ==
    IF S = {} THEN << >>
    ELSE LET m == CHOOSE x \in S : \A y \in S : x <= y
         IN  <<m>> \o SetToSortedSeq(S \ {m})

(***************************************************************************)
(* Components (components.ts) and the world (world.ts)                     *)
(***************************************************************************)
Comps == {"Position", "Velocity", "Genome", "Phenotype", "Stomach", "Energy", "Mood", "CulturalTag"}

\* Typed arrays hold 0 where nothing was written.
BlankWorld ==
    [ eids        |-> {},
      has         |-> [c \in Comps |-> {}],
      Position    |-> [e \in Ids |-> Zero3],
      Velocity    |-> [e \in Ids |-> Zero3],
      Genome      |-> [e \in Ids |-> 0],
      Phenotype   |-> [e \in Ids |-> [r |-> 0, g |-> 0, b |-> 0, size |-> 0]],
      Stomach     |-> [e \in Ids |-> [foodTypeToDigest |-> 0, amountToDigest |-> 0]],
      Energy      |-> [e \in Ids |-> [current |-> 0, max |-> 0]],
      Mood        |-> [e \in Ids |-> 0],
      CulturalTag |-> [e \in Ids |-> 0] ]

\* defineQuery([...]): the live entities holding every component of cs.
Query(w, cs) == SetToSortedSeq({e \in w.eids : \A c \in cs : e \in w.has[c]})


(***************************************************************************)
(* State                                                                   *)
(***************************************************************************)
VARIABLES
    world,                  \* the ECS world: live ids, component membership, component arrays
    rules,                  \* metabolismSystem.ts: digestion rules loaded from evolution.json
    SOCIAL_RULES,           \* socialSystem.ts: rules loaded from social.json
    relationshipStrengths,  \* socialSystem.ts: the relationship map, stored ordered pairs -> weight
    festival,               \* festivalSystem.ts: ticksWithHighHappiness, isSpiralDanceActive, festivalEndTick, currentTick
    boidsConfig,            \* boidsComputeSystem.ts: the kernel's parameter block
    lastTickTime,           \* loop.ts
    isBoidsGpuSystemReady,  \* loop.ts
    gpuResources,           \* boidsComputeSystem.ts: device, pipeline, bind group and buffers are all non-null
    criticalErrorMessage,   \* engineState.ts
    isSaving,               \* engineState.ts
    lastSaveTime,           \* engineState.ts
    db,                     \* IndexedDB: the blob stored under 'worldState', or NoSnapshot
    pendingSaves,           \* saveState calls awaiting dbSet, oldest first: the blob each will store
    pendingReinit,          \* a successful loadState whose reinitializeEngineSystemsAfterLoad has not finished
    now,                    \* the clock the animation-frame callbacks read
    phase,                  \* "boot" before startEngineLoop has finished, then "running"
    ticks,                  \* history: one record per engineTick call, in start order
    lastCallback,           \* history: what the latest gameLoop callback saw and did
    opLog,                  \* history: startEngineLoop, reinitialisations, saves and loads, in order
    cmp,                    \* the kernel bench: inputs and the two movement results
    lastPass,               \* the system that ran last on its own, and the state it started from
    boundary                \* history: the state in which the latest tick or load left the engine

vars == <<world, rules, SOCIAL_RULES, relationshipStrengths, festival, boidsConfig,
          lastTickTime, isBoidsGpuSystemReady, gpuResources, criticalErrorMessage,
          isSaving, lastSaveTime, db, pendingSaves, pendingReinit, now, phase, ticks, lastCallback, opLog, cmp, lastPass,
          boundary>>

(***************************************************************************)
(* Metabolism (metabolismSystem.ts)                                        *)
(***************************************************************************)
\* 0.05 energy per tick, in ENERGY_UNITs
BASAL_METABOLISM_RATE == 1

\* FOOD_TYPE_MAP = { "sweet": 1 }, read in both directions
FoodTypeId(name) == IF name = "sweet" THEN 1 ELSE 0
FoodTypeName(id) == IF id = 1 THEN "sweet" ELSE ""

ClampTo(lo, hi, v) == Max2(lo, Min2(hi, v))

\* rules.find(r => r.trigger.foodType === foodTypeName): the first match, as a set
FindRule(rs, name) ==
    LET hits == {i \in 1 .. Len(rs) : rs[i].foodType = name}
    IN  IF hits = {} THEN {} ELSE {rs[CHOOSE i \in hits : \A j \in hits : i <= j]}

\* An optional effect: {} when the rule does not define it, {d} otherwise.
ApplyOpt(opt, old, amount, lo, hi) ==
    IF opt = {} THEN old
    ELSE LET d == CHOOSE x \in opt : TRUE IN ClampTo(lo, hi, old + d * amount)

\* Variant: the rule's energyChange added once, whatever the amount.
MetabolismEnergyUnscaled(rs, en, st) ==
    LET drained == en.current - BASAL_METABOLISM_RATE
        basal   == IF drained < 0 THEN 0 ELSE drained
        rule    == FindRule(rs, FoodTypeName(st.foodTypeToDigest))
    IN  IF st.foodTypeToDigest > 0 /\ st.amountToDigest > 0
           /\ FoodTypeName(st.foodTypeToDigest) # "" /\ rule # {}
           /\ (CHOOSE r \in rule : TRUE).energyChange # 0
        THEN LET fed == basal + (CHOOSE r \in rule : TRUE).energyChange
             IN  IF fed > en.max THEN en.max ELSE fed
        ELSE basal

\* The energy an entity is left with by one pass of the loop body.
MetabolismEnergy(rs, en, st) ==
    LET drained == en.current - BASAL_METABOLISM_RATE
        basal   == IF drained < 0 THEN 0 ELSE drained
        rule    == FindRule(rs, FoodTypeName(st.foodTypeToDigest))
    IN  IF st.foodTypeToDigest > 0 /\ st.amountToDigest > 0
           /\ FoodTypeName(st.foodTypeToDigest) # "" /\ rule # {}
           /\ (CHOOSE r \in rule : TRUE).energyChange # 0
        THEN LET fed == basal + (CHOOSE r \in rule : TRUE).energyChange * st.amountToDigest
             IN  IF fed > en.max THEN en.max ELSE fed
        ELSE basal

\* Variant: happiness bounded from below only.
ClampHappinessFromBelow(h) == Max2(-MOOD_UNIT, h)

\* Math.max(-1, Math.min(1, h))
ClampHappiness(h) == Max2(-MOOD_UNIT, Min2(MOOD_UNIT, h))

MetabolismMood(rs, mood, st) ==
    LET rule == FindRule(rs, FoodTypeName(st.foodTypeToDigest))
    IN  IF st.foodTypeToDigest > 0 /\ st.amountToDigest > 0
           /\ FoodTypeName(st.foodTypeToDigest) # "" /\ rule # {}
           /\ (CHOOSE r \in rule : TRUE).moodHappinessChange # 0
        THEN ClampHappiness(mood + (CHOOSE r \in rule : TRUE).moodHappinessChange * st.amountToDigest)
        ELSE mood

MetabolismPhenotype(rs, ph, st) ==
    LET rule == FindRule(rs, FoodTypeName(st.foodTypeToDigest))
    IN  IF st.foodTypeToDigest > 0 /\ st.amountToDigest > 0
           /\ FoodTypeName(st.foodTypeToDigest) # "" /\ rule # {}
        THEN LET r == CHOOSE x \in rule : TRUE
                 a == st.amountToDigest
             IN  [ r    |-> ApplyOpt(r.phenotypeRChange, ph.r, a, 0, 100),
                   g    |-> ApplyOpt(r.phenotypeGChange, ph.g, a, 0, 100),
                   b    |-> ApplyOpt(r.phenotypeBChange, ph.b, a, 0, 100),
                   size |-> IF r.phenotypeSizeChange = {} THEN ph.size
                            ELSE Max2(10, ph.size + (CHOOSE x \in r.phenotypeSizeChange : TRUE) * a) ]
        ELSE ph

MetabolismStomach(st) ==
    IF st.foodTypeToDigest > 0 /\ st.amountToDigest > 0
    THEN [foodTypeToDigest |-> 0, amountToDigest |-> 0]
    ELSE st

\* metabolismSystem(world): each entity of the query is handled on its own data.
metabolismSystem(w, rs) ==
    LET q == {e \in w.eids : \A c \in {"Stomach", "Energy", "Mood", "Phenotype"} : e \in w.has[c]}
    IN  [w EXCEPT
          !.Energy    = [e \in Ids |-> IF e \in q
                                       THEN [w.Energy[e] EXCEPT !.current = MetabolismEnergy(rs, w.Energy[e], w.Stomach[e])]
                                       ELSE w.Energy[e]],
          !.Mood      = [e \in Ids |-> IF e \in q THEN MetabolismMood(rs, w.Mood[e], w.Stomach[e]) ELSE w.Mood[e]],
          !.Phenotype = [e \in Ids |-> IF e \in q THEN MetabolismPhenotype(rs, w.Phenotype[e], w.Stomach[e]) ELSE w.Phenotype[e]],
          !.Stomach   = [e \in Ids |-> IF e \in q THEN MetabolismStomach(w.Stomach[e]) ELSE w.Stomach[e]] ]

\* feedCreature(entityId, foodType, amount): the Stomach array has a slot for
\* every id of the store, whether or not the entity carries the component.
feedCreature(w, entityId, foodType, amount) ==
    IF FoodTypeId(foodType) # 0 /\ entityId \in DOMAIN w.Stomach
    THEN [w EXCEPT !.Stomach[entityId] = [foodTypeToDigest |-> FoodTypeId(foodType), amountToDigest |-> amount]]
    ELSE w

(***************************************************************************)
(* Foraging (foragingSystem.ts)                                            *)
(***************************************************************************)
FOOD_TYPE_TO_FORAGE == "sweet"
FOOD_AMOUNT_TO_FORAGE == 1

RECURSIVE ForageLoop(_, _, _)
ForageLoop(w, entities, lucky) ==
    IF entities = << >> THEN w
    ELSE LET eid == Head(entities)
             w1  == IF eid \in lucky
                    THEN feedCreature(w, eid, FOOD_TYPE_TO_FORAGE, FOOD_AMOUNT_TO_FORAGE)
                    ELSE w
         IN  ForageLoop(w1, Tail(entities), lucky)

\* foragingSystem(world); lucky is the set of entities whose draw
\* Math.random() < FORAGE_CHANCE_PER_TICK succeeds this tick.
foragingSystem(w, lucky) == ForageLoop(w, Query(w, {"Energy"}), lucky)

(***************************************************************************)
(* CPU movement (systems.ts)                                               *)
(***************************************************************************)
movementSystem(w) ==
    LET q == {e \in w.eids : e \in w.has["Position"] /\ e \in w.has["Velocity"]}
    IN  [w EXCEPT !.Position = [e \in Ids |-> IF e \in q THEN VAdd(w.Position[e], w.Velocity[e]) ELSE w.Position[e]]]


(***************************************************************************)
(* Social rule engine and its spatial grid (socialSystem.ts)               *)
(***************************************************************************)
GRID_CELL_SIZE == 5
MAX_SOCIAL_INTERACTION_RADIUS == 2
WORLD_MIN_X == -60
WORLD_MIN_Y == -60
WORLD_MIN_Z == -60

\* getCellCoords(x, y, z), on a position in 1/FP units
getCellCoords(pos) ==
    << DivF(pos[1] - WORLD_MIN_X * FP, GRID_CELL_SIZE * FP),
       DivF(pos[2] - WORLD_MIN_Y * FP, GRID_CELL_SIZE * FP),
       DivF(pos[3] - WORLD_MIN_Z * FP, GRID_CELL_SIZE * FP) >>

\* updateSpatialGrid(entities): the occupants of a cell, in insertion order
\* (the order of the query).
updateSpatialGrid(w, entities) ==
    [cell \in {getCellCoords(w.Position[entities[i]]) : i \in 1 .. Len(entities)} |->
        SelectSeq(entities, LAMBDA e : getCellCoords(w.Position[e]) = cell)]

\* Math.ceil(a / b), a >= 0, b > 0
CeilDiv(a, b) == (a + b - 1) \div b

\* Array.from(new Set(list)): first occurrences, in order
RECURSIVE Dedup(_)
Dedup(list) ==
    IF list = << >> THEN << >>
    ELSE LET rest == Dedup(SelectSeq(Tail(list), LAMBDA e : e # Head(list)))
         IN  <<Head(list)>> \o rest

RECURSIVE NearbyCells(_, _, _, _, _)
\* the cells of the cube, dz outermost and dx innermost; k counts them
NearbyCells(grid, c, R, k, initiatorEid) ==
    LET n == 2 * R + 1 IN
    IF k >= n * n * n THEN << >>
    ELSE LET dz  == (k \div (n * n)) - R
             dy  == ((k \div n) % n) - R
             dx  == (k % n) - R
             key == <<c[1] + dx, c[2] + dy, c[3] + dz>>
             occ == IF key \in DOMAIN grid
                    THEN SelectSeq(grid[key], LAMBDA t : t # initiatorEid)
                    ELSE << >>
         IN  occ \o NearbyCells(grid, c, R, k + 1, initiatorEid)

\* getNearbyEntities(initiatorEid, queryRadius), queryRadius in world units
getNearbyEntities(w, grid, initiatorEid, queryRadius) ==
    LET cellQueryRadius == CeilDiv(queryRadius, GRID_CELL_SIZE)
    IN  Dedup(NearbyCells(grid, getCellCoords(w.Position[initiatorEid]), cellQueryRadius, 0, initiatorEid))

EmptyRelationships == [p \in {} |-> 0]

\* getRelationshipStrength(initiatorEid, targetEid)
getRelationshipStrength(rel, initiatorEid, targetEid) ==
    IF <<initiatorEid, targetEid>> \in DOMAIN rel THEN rel[<<initiatorEid, targetEid>>] ELSE 0

\* Math.max(-1, Math.min(1, s)), in hundredths
ClampStrength(s) == Max2(-100, Min2(100, s))

\* Variant: the new strength stored without clamping.
updateRelationshipUnclamped(rel, initiatorEid, targetEid, change) ==
    LET newStrength == getRelationshipStrength(rel, initiatorEid, targetEid) + change
        both == {<<initiatorEid, targetEid>>, <<targetEid, initiatorEid>>}
    IN  [p \in (DOMAIN rel) \cup both |-> IF p \in both THEN newStrength ELSE rel[p]]

\* updateRelationshipStrength(initiatorEid, targetEid, change)
updateRelationshipStrength(rel, initiatorEid, targetEid, change) ==
    LET currentStrengthInitiatorToTarget == getRelationshipStrength(rel, initiatorEid, targetEid)
        newStrength == ClampStrength(currentStrengthInitiatorToTarget + change)
        both == {<<initiatorEid, targetEid>>, <<targetEid, initiatorEid>>}
    IN  [p \in (DOMAIN rel) \cup both |-> IF p \in both THEN newStrength ELSE rel[p]]

\* The precondition checks of one rule for one ordered pair.
PreconditionsMet(w, rel, rule, initiatorEid, targetEid) ==
    LET d          == VSub(w.Position[initiatorEid], w.Position[targetEid])
        distanceSq == Dot(d, d)
        distOk     == \/ rule.distance_lt = {}
                      \/ LET lt == CHOOSE x \in rule.distance_lt : TRUE
                         IN  ~(distanceSq >= lt * lt)
        relOk      == \/ rule.relationship_gt = {}
                      \/ LET gt == CHOOSE x \in rule.relationship_gt : TRUE
                         IN  ~(getRelationshipStrength(rel, initiatorEid, targetEid) <= gt)
    IN  distOk /\ relOk

\* Mood.happiness[targetEid] = Math.max(-1, Math.min(1, Mood.happiness[targetEid] + change))
ClampTargetHappiness(h) == Max2(-MOOD_UNIT, Min2(MOOD_UNIT, h))

\* Energy.current[initiatorEid] = Math.max(0, Energy.current[initiatorEid] + change)
SocialEnergy(current, change) == Max2(0, current + change)

\* The effects of a rule whose preconditions hold.
ApplyEffects(s, rule, initiatorEid, targetEid) ==
    LET w1 == IF rule.moodHappinessChange # 0
              THEN [s.w EXCEPT !.Mood[targetEid] = ClampTargetHappiness(@ + rule.moodHappinessChange)]
              ELSE s.w
        w2 == IF rule.energyChange # 0
              THEN [w1 EXCEPT !.Energy[initiatorEid].current = SocialEnergy(@, rule.energyChange)]
              ELSE w1
        r2 == IF rule.relationshipChange # 0
              THEN updateRelationshipStrength(s.rel, initiatorEid, targetEid, rule.relationshipChange)
              ELSE s.rel
    IN  [w |-> w2, rel |-> r2, applied |-> Append(s.applied, <<initiatorEid, targetEid, rule.verb>>)]

RECURSIVE RuleLoopNoBreak(_, _, _, _)
\* Variant: the loop over the rules goes on after a rule has been applied.
RuleLoopNoBreak(s, rs, initiatorEid, targetEid) ==
    IF rs = << >> THEN s
    ELSE LET rule == Head(rs)
             s1   == IF rule.verb = "Groom" /\ PreconditionsMet(s.w, s.rel, rule, initiatorEid, targetEid)
                     THEN ApplyEffects(s, rule, initiatorEid, targetEid)
                     ELSE s
         IN  RuleLoopNoBreak(s1, Tail(rs), initiatorEid, targetEid)

RECURSIVE RuleLoop(_, _, _, _)
\* for (const rule of SOCIAL_RULES): only "Groom" is looked at; the first
\* rule applied ends the loop.
RuleLoop(s, rs, initiatorEid, targetEid) ==
    IF rs = << >> THEN s
    ELSE LET rule == Head(rs)
         IN  IF rule.verb = "Groom" /\ PreconditionsMet(s.w, s.rel, rule, initiatorEid, targetEid)
             THEN ApplyEffects(s, rule, initiatorEid, targetEid)
             ELSE RuleLoop(s, Tail(rs), initiatorEid, targetEid)

RECURSIVE TargetLoop(_, _, _, _)
TargetLoop(s, rs, initiatorEid, nearbyEntities) ==
    IF nearbyEntities = << >> THEN s
    ELSE TargetLoop(RuleLoop(s, rs, initiatorEid, Head(nearbyEntities)), rs, initiatorEid, Tail(nearbyEntities))

RECURSIVE InitiatorLoop(_, _, _, _)
InitiatorLoop(s, rs, grid, entities) ==
    IF entities = << >> THEN s
    ELSE LET initiatorEid   == Head(entities)
             nearbyEntities == getNearbyEntities(s.w, grid, initiatorEid, MAX_SOCIAL_INTERACTION_RADIUS)
         IN  InitiatorLoop(TargetLoop(s, rs, initiatorEid, nearbyEntities), rs, grid, Tail(entities))

\* socialSystem(world): the world and the relationship map after the pass,
\* and the rule applications it made, in order.
socialSystem(w, rel, rs) ==
    LET entities == Query(w, {"Position", "Energy", "Mood"})
        grid     == updateSpatialGrid(w, entities)
    IN  InitiatorLoop([w |-> w, rel |-> rel, applied |-> << >>], rs, grid, entities)

\* initializeSocialState()
initializeSocialState == EmptyRelationships

(***************************************************************************)
(* Festival (festivalSystem.ts)                                            *)
(***************************************************************************)
\* 0.8 and 0.8 * 0.7, in hundredths
HAPPINESS_THRESHOLD == 80
HAPPINESS_LOW_THRESHOLD == 56
TICKS_FOR_HIGH_HAPPINESS_TO_TRIGGER_FESTIVAL == 300
FESTIVAL_DURATION_TICKS == 600

\* initializeFestivalState()
initializeFestivalState ==
    [ticksWithHighHappiness |-> 0, isSpiralDanceActive |-> FALSE, festivalEndTick |-> 0, currentTick |-> 0]

RECURSIVE SumSeq(_, _)
SumSeq(f, list) == IF list = << >> THEN 0 ELSE f[Head(list)] + SumSeq(f, Tail(list))

\* Variant: the festival starts one tick after the streak has reached the
\* trigger count.
FestivalLogicLate(w, f0) ==
    LET f               == [f0 EXCEPT !.currentTick = @ + 1]
        allMoodEntities == Query(w, {"Mood"})
        populationCount == Len(allMoodEntities)
        totalHappiness  == SumSeq(w.Mood, allMoodEntities)
        participants    == {e \in w.eids : \A c \in {"Position", "Velocity", "CulturalTag", "Mood"} : e \in w.has[c]}
        tagAll(v)       == [w EXCEPT !.CulturalTag = [e \in Ids |-> IF e \in participants THEN v ELSE w.CulturalTag[e]]]
    IN  IF populationCount = 0 THEN [w |-> w, f |-> f, skipped |-> TRUE]
        ELSE IF ~f.isSpiralDanceActive
        THEN IF totalHappiness > HAPPINESS_THRESHOLD * populationCount
             THEN IF f.ticksWithHighHappiness + 1 > TICKS_FOR_HIGH_HAPPINESS_TO_TRIGGER_FESTIVAL
                  THEN [w |-> tagAll(1),
                        f |-> [f EXCEPT !.isSpiralDanceActive = TRUE,
                                        !.festivalEndTick = f.currentTick + FESTIVAL_DURATION_TICKS,
                                        !.ticksWithHighHappiness = 0],
                        skipped |-> FALSE]
                  ELSE [w |-> w, f |-> [f EXCEPT !.ticksWithHighHappiness = @ + 1], skipped |-> FALSE]
             ELSE [w |-> w, f |-> [f EXCEPT !.ticksWithHighHappiness = 0], skipped |-> FALSE]
        ELSE IF f.currentTick >= f.festivalEndTick \/ totalHappiness < HAPPINESS_LOW_THRESHOLD * populationCount
             THEN [w |-> tagAll(0), f |-> [f EXCEPT !.isSpiralDanceActive = FALSE], skipped |-> FALSE]
             ELSE [w |-> w, f |-> f, skipped |-> FALSE]

\* Variant: a tick without high average happiness leaves the streak as it is.
FestivalLogicKeepsStreak(w, f0) ==
    LET f               == [f0 EXCEPT !.currentTick = @ + 1]
        allMoodEntities == Query(w, {"Mood"})
        populationCount == Len(allMoodEntities)
        totalHappiness  == SumSeq(w.Mood, allMoodEntities)
        participants    == {e \in w.eids : \A c \in {"Position", "Velocity", "CulturalTag", "Mood"} : e \in w.has[c]}
        tagAll(v)       == [w EXCEPT !.CulturalTag = [e \in Ids |-> IF e \in participants THEN v ELSE w.CulturalTag[e]]]
    IN  IF populationCount = 0 THEN [w |-> w, f |-> f, skipped |-> TRUE]
        ELSE IF ~f.isSpiralDanceActive
        THEN IF totalHappiness > HAPPINESS_THRESHOLD * populationCount
             THEN IF f.ticksWithHighHappiness + 1 >= TICKS_FOR_HIGH_HAPPINESS_TO_TRIGGER_FESTIVAL
                  THEN [w |-> tagAll(1),
                        f |-> [f EXCEPT !.isSpiralDanceActive = TRUE,
                                        !.festivalEndTick = f.currentTick + FESTIVAL_DURATION_TICKS,
                                        !.ticksWithHighHappiness = 0],
                        skipped |-> FALSE]
                  ELSE [w |-> w, f |-> [f EXCEPT !.ticksWithHighHappiness = @ + 1], skipped |-> FALSE]
             ELSE [w |-> w, f |-> f, skipped |-> FALSE]
        ELSE IF f.currentTick >= f.festivalEndTick \/ totalHappiness < HAPPINESS_LOW_THRESHOLD * populationCount
             THEN [w |-> tagAll(0), f |-> [f EXCEPT !.isSpiralDanceActive = FALSE], skipped |-> FALSE]
             ELSE [w |-> w, f |-> f, skipped |-> FALSE]

\* Variant: the festival runs one tick past its end tick.
FestivalLogicOverrun(w, f0) ==
    LET f               == [f0 EXCEPT !.currentTick = @ + 1]
        allMoodEntities == Query(w, {"Mood"})
        populationCount == Len(allMoodEntities)
        totalHappiness  == SumSeq(w.Mood, allMoodEntities)
        participants    == {e \in w.eids : \A c \in {"Position", "Velocity", "CulturalTag", "Mood"} : e \in w.has[c]}
        tagAll(v)       == [w EXCEPT !.CulturalTag = [e \in Ids |-> IF e \in participants THEN v ELSE w.CulturalTag[e]]]
    IN  IF populationCount = 0 THEN [w |-> w, f |-> f, skipped |-> TRUE]
        ELSE IF ~f.isSpiralDanceActive
        THEN IF totalHappiness > HAPPINESS_THRESHOLD * populationCount
             THEN IF f.ticksWithHighHappiness + 1 >= TICKS_FOR_HIGH_HAPPINESS_TO_TRIGGER_FESTIVAL
                  THEN [w |-> tagAll(1),
                        f |-> [f EXCEPT !.isSpiralDanceActive = TRUE,
                                        !.festivalEndTick = f.currentTick + FESTIVAL_DURATION_TICKS,
                                        !.ticksWithHighHappiness = 0],
                        skipped |-> FALSE]
                  ELSE [w |-> w, f |-> [f EXCEPT !.ticksWithHighHappiness = @ + 1], skipped |-> FALSE]
             ELSE [w |-> w, f |-> [f EXCEPT !.ticksWithHighHappiness = 0], skipped |-> FALSE]
        ELSE IF f.currentTick > f.festivalEndTick \/ totalHappiness < HAPPINESS_LOW_THRESHOLD * populationCount
             THEN [w |-> tagAll(0), f |-> [f EXCEPT !.isSpiralDanceActive = FALSE], skipped |-> FALSE]
             ELSE [w |-> w, f |-> f, skipped |-> FALSE]

\* Variant: the festival also ends on an average equal to the lower threshold.
FestivalLogicEndsAtLow(w, f0) ==
    LET f               == [f0 EXCEPT !.currentTick = @ + 1]
        allMoodEntities == Query(w, {"Mood"})
        populationCount == Len(allMoodEntities)
        totalHappiness  == SumSeq(w.Mood, allMoodEntities)
        participants    == {e \in w.eids : \A c \in {"Position", "Velocity", "CulturalTag", "Mood"} : e \in w.has[c]}
        tagAll(v)       == [w EXCEPT !.CulturalTag = [e \in Ids |-> IF e \in participants THEN v ELSE w.CulturalTag[e]]]
    IN  IF populationCount = 0 THEN [w |-> w, f |-> f, skipped |-> TRUE]
        ELSE IF ~f.isSpiralDanceActive
        THEN IF totalHappiness > HAPPINESS_THRESHOLD * populationCount
             THEN IF f.ticksWithHighHappiness + 1 >= TICKS_FOR_HIGH_HAPPINESS_TO_TRIGGER_FESTIVAL
                  THEN [w |-> tagAll(1),
                        f |-> [f EXCEPT !.isSpiralDanceActive = TRUE,
                                        !.festivalEndTick = f.currentTick + FESTIVAL_DURATION_TICKS,
                                        !.ticksWithHighHappiness = 0],
                        skipped |-> FALSE]
                  ELSE [w |-> w, f |-> [f EXCEPT !.ticksWithHighHappiness = @ + 1], skipped |-> FALSE]
             ELSE [w |-> w, f |-> [f EXCEPT !.ticksWithHighHappiness = 0], skipped |-> FALSE]
        ELSE IF f.currentTick >= f.festivalEndTick \/ totalHappiness <= HAPPINESS_LOW_THRESHOLD * populationCount
             THEN [w |-> tagAll(0), f |-> [f EXCEPT !.isSpiralDanceActive = FALSE], skipped |-> FALSE]
             ELSE [w |-> w, f |-> f, skipped |-> FALSE]

\* Variant: the tick that starts the festival leaves the streak at the trigger count.
FestivalLogicStartKeepsStreak(w, f0) ==
    LET f               == [f0 EXCEPT !.currentTick = @ + 1]
        allMoodEntities == Query(w, {"Mood"})
        populationCount == Len(allMoodEntities)
        totalHappiness  == SumSeq(w.Mood, allMoodEntities)
        participants    == {e \in w.eids : \A c \in {"Position", "Velocity", "CulturalTag", "Mood"} : e \in w.has[c]}
        tagAll(v)       == [w EXCEPT !.CulturalTag = [e \in Ids |-> IF e \in participants THEN v ELSE w.CulturalTag[e]]]
    IN  IF populationCount = 0 THEN [w |-> w, f |-> f, skipped |-> TRUE]
        ELSE IF ~f.isSpiralDanceActive
        THEN IF totalHappiness > HAPPINESS_THRESHOLD * populationCount
             THEN IF f.ticksWithHighHappiness + 1 >= TICKS_FOR_HIGH_HAPPINESS_TO_TRIGGER_FESTIVAL
                  THEN [w |-> tagAll(1),
                        f |-> [f EXCEPT !.isSpiralDanceActive = TRUE,
                                        !.festivalEndTick = f.currentTick + FESTIVAL_DURATION_TICKS,
                                        !.ticksWithHighHappiness = @ + 1],
                        skipped |-> FALSE]
                  ELSE [w |-> w, f |-> [f EXCEPT !.ticksWithHighHappiness = @ + 1], skipped |-> FALSE]
             ELSE [w |-> w, f |-> [f EXCEPT !.ticksWithHighHappiness = 0], skipped |-> FALSE]
        ELSE IF f.currentTick >= f.festivalEndTick \/ totalHappiness < HAPPINESS_LOW_THRESHOLD * populationCount
             THEN [w |-> tagAll(0), f |-> [f EXCEPT !.isSpiralDanceActive = FALSE], skipped |-> FALSE]
             ELSE [w |-> w, f |-> f, skipped |-> FALSE]

\* Variant: only low happiness ends a festival.
FestivalLogicNoEndTick(w, f0) ==
    LET f               == [f0 EXCEPT !.currentTick = @ + 1]
        allMoodEntities == Query(w, {"Mood"})
        populationCount == Len(allMoodEntities)
        totalHappiness  == SumSeq(w.Mood, allMoodEntities)
        participants    == {e \in w.eids : \A c \in {"Position", "Velocity", "CulturalTag", "Mood"} : e \in w.has[c]}
        tagAll(v)       == [w EXCEPT !.CulturalTag = [e \in Ids |-> IF e \in participants THEN v ELSE w.CulturalTag[e]]]
    IN  IF populationCount = 0 THEN [w |-> w, f |-> f, skipped |-> TRUE]
        ELSE IF ~f.isSpiralDanceActive
        THEN IF totalHappiness > HAPPINESS_THRESHOLD * populationCount
             THEN IF f.ticksWithHighHappiness + 1 >= TICKS_FOR_HIGH_HAPPINESS_TO_TRIGGER_FESTIVAL
                  THEN [w |-> tagAll(1),
                        f |-> [f EXCEPT !.isSpiralDanceActive = TRUE,
                                        !.festivalEndTick = f.currentTick + FESTIVAL_DURATION_TICKS,
                                        !.ticksWithHighHappiness = 0],
                        skipped |-> FALSE]
                  ELSE [w |-> w, f |-> [f EXCEPT !.ticksWithHighHappiness = @ + 1], skipped |-> FALSE]
             ELSE [w |-> w, f |-> [f EXCEPT !.ticksWithHighHappiness = 0], skipped |-> FALSE]
        ELSE IF totalHappiness < HAPPINESS_LOW_THRESHOLD * populationCount
             THEN [w |-> tagAll(0), f |-> [f EXCEPT !.isSpiralDanceActive = FALSE], skipped |-> FALSE]
             ELSE [w |-> w, f |-> f, skipped |-> FALSE]

\* The state machine of festivalSystem: the four scalars and the dancer tags
\* after the start/end logic.  averageHappiness = totalHappiness / populationCount
\* is compared without dividing.
FestivalLogic(w, f0) ==
    LET f               == [f0 EXCEPT !.currentTick = @ + 1]
        allMoodEntities == Query(w, {"Mood"})
        populationCount == Len(allMoodEntities)
        totalHappiness  == SumSeq(w.Mood, allMoodEntities)
        participants    == {e \in w.eids : \A c \in {"Position", "Velocity", "CulturalTag", "Mood"} : e \in w.has[c]}
        tagAll(v)       == [w EXCEPT !.CulturalTag = [e \in Ids |-> IF e \in participants THEN v ELSE w.CulturalTag[e]]]
    IN  IF populationCount = 0 THEN [w |-> w, f |-> f, skipped |-> TRUE]
        ELSE IF ~f.isSpiralDanceActive
        THEN IF totalHappiness > HAPPINESS_THRESHOLD * populationCount
             THEN IF f.ticksWithHighHappiness + 1 >= TICKS_FOR_HIGH_HAPPINESS_TO_TRIGGER_FESTIVAL
                  THEN [w |-> tagAll(1),
                        f |-> [f EXCEPT !.isSpiralDanceActive = TRUE,
                                        !.festivalEndTick = f.currentTick + FESTIVAL_DURATION_TICKS,
                                        !.ticksWithHighHappiness = 0],
                        skipped |-> FALSE]
                  ELSE [w |-> w, f |-> [f EXCEPT !.ticksWithHighHappiness = @ + 1], skipped |-> FALSE]
             ELSE [w |-> w, f |-> [f EXCEPT !.ticksWithHighHappiness = 0], skipped |-> FALSE]
        ELSE IF f.currentTick >= f.festivalEndTick \/ totalHappiness < HAPPINESS_LOW_THRESHOLD * populationCount
             THEN [w |-> tagAll(0), f |-> [f EXCEPT !.isSpiralDanceActive = FALSE], skipped |-> FALSE]
             ELSE [w |-> w, f |-> f, skipped |-> FALSE]

\* The dancers whose velocity the spiral dance overrides this tick.
Dancers(r) ==
    IF r.skipped \/ ~r.f.isSpiralDanceActive THEN {}
    ELSE {e \in r.w.eids : /\ \A c \in {"Position", "Velocity", "CulturalTag", "Mood"} : e \in r.w.has[c]
                           /\ r.w.CulturalTag[e] = 1}

\* festivalSystem(world).  dance gives, for each dancer, the velocity the
\* spiral computation (atan2, cos, sin, sqrt) arrives at: SPIRAL_SPEED towards
\* the target point, or zero within 0.1 of it.
festivalSystem(w, f0, dance) ==
    LET r == FestivalLogic(w, f0)
    IN  [w |-> [r.w EXCEPT !.Velocity = [e \in Ids |-> IF e \in Dancers(r) THEN dance[e] ELSE r.w.Velocity[e]]],
         f |-> r.f]


(***************************************************************************)
(* The flocking kernel (boids.wgsl)                                        *)
(***************************************************************************)
\* boidsConfig as boidsComputeSystem.ts initialises it, in 1/FP units
DefaultBoidsConfig ==
    [ delta_time          |-> 10,
      cohesion_factor     |-> 2,
      separation_factor   |-> 80,
      alignment_factor    |-> 5,
      perception_radius   |-> 1000,
      separation_distance |-> 200,
      max_speed           |-> 200,
      max_force           |-> 10,
      world_size_x        |-> 10000,
      world_size_y        |-> 10000,
      world_size_z        |-> 10000 ]

\* fn limit(vec, max_val)
limit(vec, max_val) ==
    LET length_sq == Dot(vec, vec)
    IN  IF length_sq > max_val * max_val /\ length_sq > 0
        THEN VScale(vec, max_val, ISqrt(length_sq))
        ELSE vec

\* one axis of wrap_around: the two tests in program order
WrapAxis(x, half_world) ==
    LET x1 == IF x < -half_world THEN half_world ELSE x
    IN  IF x1 > half_world THEN -half_world ELSE x1

\* fn wrap_around(pos)
wrap_around(pos, params) ==
    << WrapAxis(pos[1], DivT(params.world_size_x, 2)),
       WrapAxis(pos[2], DivT(params.world_size_y, 2)),
       WrapAxis(pos[3], DivT(params.world_size_z, 2)) >>

\* Variant: the upper end of the neighbour test not strict.
WithinRadiusInclusive(distSq, radius) == distSq > 0 /\ radius > 0 /\ distSq <= radius * radius

\* dist > 0.0 && dist < radius, decided on the squared distance
WithinRadius(distSq, radius) == distSq > 0 /\ radius > 0 /\ distSq < radius * radius

RECURSIVE SumVec(_, _)
SumVec(f, S) ==
    IF S = {} THEN Zero3
    ELSE LET x == CHOOSE y \in S : TRUE IN VAdd(f[x], SumVec(f, S \ {x}))

\* Variant: cohesion steers towards the accumulated position without asking
\* whether any neighbour was perceived.
AccelerationUnguarded(particles_in, idx, params) ==
    LET current_pos == particles_in[idx].pos
        others      == (DOMAIN particles_in) \ {idx}
        distSq(i)   == Dot(VSub(current_pos, particles_in[i].pos), VSub(current_pos, particles_in[i].pos))
        perceived   == {i \in others : WithinRadius(distSq(i), params.perception_radius)}
        tooClose    == {i \in others : WithinRadius(distSq(i), params.separation_distance)}
        away        == [i \in tooClose |-> VScale(VSub(current_pos, particles_in[i].pos), FP * FP, distSq(i))]
        cohesion_vec   == VScale(SumVec([i \in perceived |-> particles_in[i].pos], perceived), 1, Max2(1, Cardinality(perceived)))
        alignment_vec  == VScale(SumVec([i \in perceived |-> particles_in[i].vel], perceived), 1, Max2(1, Cardinality(perceived)))
        separation_vec == VScale(SumVec(away, tooClose), 1, Max2(1, Cardinality(tooClose)))
        a1 == VScale(limit(VSub(cohesion_vec, current_pos), params.max_force), params.cohesion_factor, FP)
        a2 == IF perceived # {}
              THEN VScale(limit(alignment_vec, params.max_force), params.alignment_factor, FP)
              ELSE Zero3
        a3 == IF tooClose # {}
              THEN VScale(limit(separation_vec, params.max_force), params.separation_factor, FP)
              ELSE Zero3
    IN  VAdd(VAdd(a1, a2), a3)

\* acceleration accumulated by fn main for particle idx
Acceleration(particles_in, idx, params) ==
    LET current_pos == particles_in[idx].pos
        others      == (DOMAIN particles_in) \ {idx}
        distSq(i)   == Dot(VSub(current_pos, particles_in[i].pos), VSub(current_pos, particles_in[i].pos))
        perceived   == {i \in others : WithinRadius(distSq(i), params.perception_radius)}
        tooClose    == {i \in others : WithinRadius(distSq(i), params.separation_distance)}
        \* normalize(diff) / dist = diff / dist^2
        away        == [i \in tooClose |-> VScale(VSub(current_pos, particles_in[i].pos), FP * FP, distSq(i))]
        cohesion_vec   == VScale(SumVec([i \in perceived |-> particles_in[i].pos], perceived), 1, Max2(1, Cardinality(perceived)))
        alignment_vec  == VScale(SumVec([i \in perceived |-> particles_in[i].vel], perceived), 1, Max2(1, Cardinality(perceived)))
        separation_vec == VScale(SumVec(away, tooClose), 1, Max2(1, Cardinality(tooClose)))
        a1 == IF perceived # {}
              THEN VScale(limit(VSub(cohesion_vec, current_pos), params.max_force), params.cohesion_factor, FP)
              ELSE Zero3
        a2 == IF perceived # {}
              THEN VScale(limit(alignment_vec, params.max_force), params.alignment_factor, FP)
              ELSE Zero3
        a3 == IF tooClose # {}
              THEN VScale(limit(separation_vec, params.max_force), params.separation_factor, FP)
              ELSE Zero3
    IN  VAdd(VAdd(a1, a2), a3)

\* fn main(global_id): the particle written to particles_out[idx]
main(particles_in, idx, params) ==
    LET acceleration == Acceleration(particles_in, idx, params)
        vel1 == VAdd(particles_in[idx].vel, VScale(acceleration, params.delta_time, FP))
        vel2 == limit(vel1, params.max_speed)
        pos1 == VAdd(particles_in[idx].pos, VScale(vel2, params.delta_time, FP))
    IN  [pos |-> wrap_around(pos1, params), vel |-> vel2]

\* one dispatch: every invocation reads particles_in, writes its own slot
Dispatch(particles_in, params) == [idx \in DOMAIN particles_in |-> main(particles_in, idx, params)]

\* boidsComputeSystem, step 1: particleDataForGPU for the entities of the query
Marshal(w, entities) ==
    [e \in {entities[i] : i \in 1 .. Len(entities)} |-> [pos |-> w.Position[e], vel |-> w.Velocity[e]]]

\* Component slots of ids that are not live are don't-cares: kept blank.
Normalize(w) ==
    [w EXCEPT !.Position = [e \in Ids |-> IF e \in w.eids THEN w.Position[e] ELSE Zero3],
              !.Velocity = [e \in Ids |-> IF e \in w.eids THEN w.Velocity[e] ELSE Zero3]]

\* boidsComputeSystem, step 6: resultsData written back to the ECS arrays
WriteBack(w, resultsData) ==
    Normalize([w EXCEPT
        !.Position = [e \in Ids |-> IF e \in DOMAIN resultsData THEN resultsData[e].pos ELSE w.Position[e]],
        !.Velocity = [e \in Ids |-> IF e \in DOMAIN resultsData THEN resultsData[e].vel ELSE w.Velocity[e]]])

(***************************************************************************)
(* One tick's systems after movement (loop.ts, engineTick)                 *)
(***************************************************************************)
SystemOrder == <<"Movement", "Metabolism", "Foraging", "Social", "Festival">>

\* metabolismSystem, foragingSystem, socialSystem, festivalSystem in the
\* order engineTick calls them; order records the calls.
AfterMovement(w, rel, f, rs, srs, lucky, dance) ==
    LET w1 == metabolismSystem(w, rs)
        w2 == foragingSystem(w1, lucky)
        s  == socialSystem(w2, rel, srs)
        r  == festivalSystem(s.w, f, dance)
    IN  [w |-> r.w, rel |-> s.rel, f |-> r.f,
         order |-> <<"Metabolism", "Foraging", "Social", "Festival">>]

\* 1.5, in 1/FP units
SPIRAL_SPEED == 150
\* Velocities the dance can set: zero, or SPIRAL_SPEED along some direction.
DanceVelocities == {Zero3, <<SPIRAL_SPEED, 0, 0>>, <<0, 0, -SPIRAL_SPEED>>}
DanceChoices(f) ==
    IF f.isSpiralDanceActive \/ f.ticksWithHighHappiness + 1 >= TICKS_FOR_HIGH_HAPPINESS_TO_TRIGGER_FESTIVAL
    THEN [Ids -> DanceVelocities]
    ELSE {[e \in Ids |-> Zero3]}


(***************************************************************************)
(* Persistence (persistence.ts)                                            *)
(***************************************************************************)
NoSnapshot == [none |-> TRUE]
\* dbGet's promise rejected
Rejected == [rejected |-> TRUE]
NoError == "null"

\* fullState as saveState assembles it: the live ids, the component arrays,
\* the relationship map and the four festival scalars.
FullState(w, rel, f) == [eids |-> w.eids, components |-> w, relationships |-> rel, festival |-> f]

\* The maps old id -> new id that the addEntity calls after resetWorld can
\* produce: one distinct id per saved id.
EidMaps(eids) == {m \in [eids -> Ids] : \A a, b \in eids : a # b => m[a] # m[b]}

\* loadState's component restore: every new id receives every persisted
\* component with the values stored at its old id.
RestoreComponents(saved, m) ==
    LET newIds == {m[e] : e \in DOMAIN m}
        old(n) == CHOOSE e \in DOMAIN m : m[e] = n
        c      == saved.components
        \* savedCompData: components[comp.name] is there, and then holds a
        \* number at every saved id
        found(k) == k \notin (IF "faults" \in DOMAIN saved THEN saved.faults ELSE {})
        put(k, n) == n \in newIds /\ found(k)
    IN  [ eids        |-> newIds,
          has         |-> [k \in Comps |-> IF found(k) THEN newIds ELSE {}],
          Position    |-> [n \in Ids |-> IF put("Position", n) THEN c.Position[old(n)] ELSE BlankWorld.Position[n]],
          Velocity    |-> [n \in Ids |-> IF put("Velocity", n) THEN c.Velocity[old(n)] ELSE BlankWorld.Velocity[n]],
          Genome      |-> [n \in Ids |-> IF put("Genome", n) THEN c.Genome[old(n)] ELSE BlankWorld.Genome[n]],
          Phenotype   |-> [n \in Ids |-> IF put("Phenotype", n) THEN c.Phenotype[old(n)] ELSE BlankWorld.Phenotype[n]],
          Stomach     |-> [n \in Ids |-> IF put("Stomach", n) THEN c.Stomach[old(n)] ELSE BlankWorld.Stomach[n]],
          Energy      |-> [n \in Ids |-> IF put("Energy", n) THEN c.Energy[old(n)] ELSE BlankWorld.Energy[n]],
          Mood        |-> [n \in Ids |-> IF put("Mood", n) THEN c.Mood[old(n)] ELSE BlankWorld.Mood[n]],
          CulturalTag |-> [n \in Ids |-> IF put("CulturalTag", n) THEN c.CulturalTag[old(n)] ELSE BlankWorld.CulturalTag[n]] ]

\* Variant: the relationship list is put back under the saved ids.
RemapRelationshipsUntranslated(rel, m) == rel

\* loadState's relationship restore: both ids translated, entries with an
\* untranslatable id dropped.
RemapRelationships(rel, m) ==
    LET kept == {p \in DOMAIN rel : p[1] \in DOMAIN m /\ p[2] \in DOMAIN m}
        back(q) == CHOOSE p \in kept : <<m[p[1]], m[p[2]]>> = q
    IN  [q \in {<<m[p[1]], m[p[2]]>> : p \in kept} |-> rel[back(q)]]

\* Stored bytes that pako.inflate or JSON.parse refuses.
Corrupt == [corrupt |-> TRUE]

\* What a stored object lacks next to the one saveState writes:
\* "components", "systems", "social" or "festival" for an absent member,
\* "relationships" for a systems.social.relationships that is no array, and
\* the name of a component for an absent components[name].
Faults(got) == IF "faults" \in DOMAIN got THEN got.faults ELSE {}

\* A snapshot as a damaged store or another build of the program holds it.
Damaged(snapshot, faults) ==
    [eids |-> snapshot.eids, components |-> snapshot.components, relationships |-> snapshot.relationships,
     festival |-> snapshot.festival, faults |-> faults]

\* loadState's loop of addEntity calls: the new entities, no component yet.
CreateEntities(m) == [BlankWorld EXCEPT !.eids = {m[e] : e \in DOMAIN m}]

\* loadState's festival restore: each scalar, or its default when falsy.
RestoreFestival(saved) ==
    [ ticksWithHighHappiness |-> IF saved.ticksWithHighHappiness = 0 THEN 0 ELSE saved.ticksWithHighHappiness,
      isSpiralDanceActive    |-> IF saved.isSpiralDanceActive THEN TRUE ELSE FALSE,
      festivalEndTick        |-> IF saved.festivalEndTick = 0 THEN 0 ELSE saved.festivalEndTick,
      currentTick            |-> IF saved.currentTick = 0 THEN 0 ELSE saved.currentTick ]

\* Variant: a snapshot without one of the two sub-objects is treated as
\* one without any.
RestoreSystemsTogether(got, m) ==
    IF Faults(got) \cap {"systems", "social", "festival"} # {}
    THEN [rel |-> initializeSocialState, f |-> initializeFestivalState]
    ELSE [rel |-> RemapRelationships(got.relationships, m), f |-> RestoreFestival(got.festival)]

\* loadState, step 5: the social and the festival state, each from its own
\* sub-object or from its initializer.
RestoreSystems(got, m) ==
    IF "systems" \in Faults(got)
    THEN [rel |-> initializeSocialState, f |-> initializeFestivalState]
    ELSE [rel |-> IF "social" \in Faults(got) THEN initializeSocialState
                  ELSE RemapRelationships(got.relationships, m),
          f   |-> IF "festival" \in Faults(got) THEN initializeFestivalState
                  ELSE RestoreFestival(got.festival)]

\* Variant: a catch block that reports and leaves everything as the
\* exception found it.
loadStateCatchReportsOnly(partial) ==
    [w |-> partial.w, rel |-> partial.rel, f |-> partial.f,
     error |-> "load-failed", loaded |-> FALSE, reset |-> FALSE]

\* loadState's catch block; partial is what the try block had done when
\* the exception was thrown.
loadStateCatch(partial) ==
    [w |-> BlankWorld, rel |-> initializeSocialState, f |-> initializeFestivalState,
     error |-> "load-failed", loaded |-> FALSE, reset |-> TRUE]

\* Variant: nothing stored, and the social and festival state left alone.
NoStateFoundKeepsSystems ==
    [w |-> world, rel |-> relationshipStrengths, f |-> festival,
     error |-> criticalErrorMessage, loaded |-> FALSE, reset |-> FALSE]

\* loadState when dbGet answers undefined: the two initializers, return false.
NoStateFound ==
    [w |-> world, rel |-> initializeSocialState, f |-> initializeFestivalState,
     error |-> criticalErrorMessage, loaded |-> FALSE, reset |-> FALSE]

\* loadState once dbGet has answered.  got is "rejected", or the stored
\* value; m is the id map the allocator produces.  An exception is thrown by
\* dbGet, by inflate or parse, by the component restore of an object without
\* components, and by the relationship restore of a malformed list.
loadState(got, m) ==
    LET current == [w |-> world, rel |-> relationshipStrengths, f |-> festival]
        cleared == [w |-> BlankWorld, rel |-> initializeSocialState, f |-> initializeFestivalState]
    IN  IF got = Rejected
        THEN loadStateCatch(current)
        ELSE IF got = NoSnapshot
        THEN NoStateFound
        ELSE IF got = Corrupt
        THEN loadStateCatch(current)
        ELSE IF got.eids = {}
        THEN [w |-> BlankWorld, rel |-> initializeSocialState, f |-> initializeFestivalState,
              error |-> criticalErrorMessage, loaded |-> TRUE, reset |-> TRUE]
        ELSE IF "components" \in Faults(got)
        THEN loadStateCatch([cleared EXCEPT !.w = CreateEntities(m)])
        ELSE IF "relationships" \in Faults(got) /\ Faults(got) \cap {"systems", "social"} = {}
        THEN loadStateCatch([cleared EXCEPT !.w = RestoreComponents(got, m)])
        ELSE LET systems == RestoreSystems(got, m)
             IN  [w |-> RestoreComponents(got, m), rel |-> systems.rel, f |-> systems.f,
                  error |-> criticalErrorMessage, loaded |-> TRUE, reset |-> TRUE]

\* What dbGet answered, as the load is logged.
Answer(got) ==
    IF got = Rejected THEN "rejected"
    ELSE IF got = NoSnapshot THEN "none"
    ELSE IF got = Corrupt THEN "corrupt" ELSE "snapshot"


(***************************************************************************)
(* Start-up state                                                          *)
(***************************************************************************)
\* initializeEntities(): ids 0 .. NUM_ENTITIES-1, every component attached;
\* pos, vel and en stand for the Math.random() draws.
initializeEntities(pos, vel, en) ==
    LET made == 0 .. (NUM_ENTITIES - 1)
    IN  [ eids        |-> made,
          has         |-> [c \in Comps |-> made],
          Position    |-> [e \in Ids |-> IF e \in made THEN pos[e] ELSE Zero3],
          Velocity    |-> [e \in Ids |-> IF e \in made THEN vel[e] ELSE Zero3],
          Genome      |-> [e \in Ids |-> IF e \in made THEN e ELSE 0],
          Phenotype   |-> [e \in Ids |-> IF e \in made THEN [r |-> 50, g |-> 50, b |-> 50, size |-> 75]
                                         ELSE BlankWorld.Phenotype[e]],
          Stomach     |-> [e \in Ids |-> [foodTypeToDigest |-> 0, amountToDigest |-> 0]],
          Energy      |-> [e \in Ids |-> IF e \in made THEN [current |-> en[e], max |-> 100 * ENERGY_UNIT]
                                         ELSE BlankWorld.Energy[e]],
          Mood        |-> [e \in Ids |-> 0],
          CulturalTag |-> [e \in Ids |-> 0] ]

\* A digestion rule and a social rule of the shape the JSON files hold.
DigestionRule(ec, mc) ==
    [ foodType |-> "sweet", energyChange |-> ec, moodHappinessChange |-> mc,
      phenotypeRChange |-> {}, phenotypeGChange |-> {5}, phenotypeBChange |-> {},
      phenotypeSizeChange |-> {} ]
GroomRule(gt, mc, ec, rc) ==
    [ verb |-> "Groom", distance_lt |-> {MAX_SOCIAL_INTERACTION_RADIUS * FP}, relationship_gt |-> gt,
      moodHappinessChange |-> mc, energyChange |-> ec, relationshipChange |-> rc ]

\* No system has run on its own yet.
NoPass == [system |-> "none"]

\* A rule of social.json with any verb and any distance_lt.
SocialRule(verb, lt, gt, mc, ec, rc) ==
    [ verb |-> verb, distance_lt |-> lt, relationship_gt |-> gt,
      moodHappinessChange |-> mc, energyChange |-> ec, relationshipChange |-> rc ]

\* The kernel bench before its first step.
NoComparison == [done |-> FALSE, steps |-> 0, cpu |-> << >>, gpu |-> << >>]

\* Module state of engineState.ts, persistence and the GPU before anything ran.
InitElsewhere ==
    /\ boidsConfig = DefaultBoidsConfig
    /\ lastTickTime = 0
    /\ isBoidsGpuSystemReady = FALSE
    /\ gpuResources = FALSE
    /\ criticalErrorMessage = NoError
    /\ isSaving = FALSE
    /\ lastSaveTime = 0
    /\ db = NoSnapshot
    /\ pendingSaves = << >>
    /\ pendingReinit = FALSE
    /\ now = 0
    /\ ticks = << >>
    /\ lastCallback = [elapsed |-> -1, started |-> 0, advance |-> 0]
    /\ opLog = << >>
    /\ cmp = NoComparison
    /\ lastPass = NoPass
    /\ relationshipStrengths = EmptyRelationships
    /\ festival = initializeFestivalState
    /\ boundary = FullState(world, relationshipStrengths, festival)

\* The application as main.tsx leaves it before startEngineLoop() resolves.
Init ==
    /\ \E x \in {100, 4000}, v \in {<<50, 0, 0>>}, e0 \in {70 * ENERGY_UNIT} :
          world = initializeEntities([e \in 0 .. (NUM_ENTITIES - 1) |-> <<x * e, 0, 0>>],
                                     [e \in 0 .. (NUM_ENTITIES - 1) |-> v],
                                     [e \in 0 .. (NUM_ENTITIES - 1) |-> e0])
    /\ rules = << DigestionRule(5 * ENERGY_UNIT, 10) >>
    /\ SOCIAL_RULES = << GroomRule({-50}, 10, -ENERGY_UNIT, 5) >>
    /\ phase = "boot"
    /\ InitElsewhere


(***************************************************************************)
(* The tick scheduler (loop.ts)                                            *)
(***************************************************************************)
\* 1000 / TICK_RATE, in ms
TICK_INTERVAL == 100
\* Gaps between successive animation-frame callbacks, in ms.
ClockSteps == {50, 100, 250}
InitOutcomes == {"ready", "unavailable", "throws"}

\* Variants of the scheduler's two computations: a strict comparison, and a
\* lastTickTime that follows the clock.
TickDueStrictly(deltaTime) == deltaTime > TICK_INTERVAL
LastTickTimeIsNow(currentTime, deltaTime) == currentTime

\* Variant: lastTickTime moves on by one interval, the other intervals
\* that were missed stay pending.
LastTickTimePlusInterval(currentTime, deltaTime) == currentTime - deltaTime + TICK_INTERVAL

\* gameLoop: if (deltaTime >= TICK_INTERVAL)
TickDue(deltaTime) == deltaTime >= TICK_INTERVAL
\* gameLoop: lastTickTime = currentTime - (deltaTime % TICK_INTERVAL)
NextLastTickTime(currentTime, deltaTime) == currentTime - (deltaTime % TICK_INTERVAL)

Awaiting == {i \in 1 .. Len(ticks) : ticks[i].status = "awaiting"}
OpCount(op) == Cardinality({i \in 1 .. Len(opLog) : opLog[i].op = op})

\* Variant: a start-up that records no message.
InitMessageSilent(outcome) == NoError

\* What initBoidsComputeSystem's outcome makes of the flag, the resources
\* and the message, in startEngineLoop and reinitializeEngineSystemsAfterLoad.
InitMessage(outcome) ==
    IF outcome = "ready" THEN NoError
    ELSE IF outcome = "unavailable" THEN "gpu-init-failed" ELSE "gpu-init-error"

\* startEngineLoop()
StartEngineLoop(outcome) ==
    /\ phase = "boot"
    /\ isBoidsGpuSystemReady' = (outcome = "ready")
    /\ gpuResources' = (gpuResources \/ outcome = "ready")
    /\ criticalErrorMessage' = InitMessage(outcome)
    /\ relationshipStrengths' = initializeSocialState
    /\ festival' = initializeFestivalState
    /\ boundary' = FullState(world, relationshipStrengths', festival')
    /\ phase' = "running"
    /\ opLog' = Append(opLog, [op |-> "start", outcome |-> outcome, error |-> criticalErrorMessage'])
    /\ UNCHANGED <<world, rules, SOCIAL_RULES, boidsConfig, lastTickTime, isSaving, lastSaveTime,
                   db, pendingSaves, pendingReinit, now, ticks, lastCallback, cmp, lastPass>>

\* engineTick() on the CPU path, and on the GPU path when boidsComputeSystem
\* returns at once for want of resources: runs to completion.
TickThrough(path, moved, lucky, dance) ==
    \E r \in {AfterMovement(moved, relationshipStrengths, festival, rules, SOCIAL_RULES, lucky, dance)} :
        /\ world' = r.w
        /\ relationshipStrengths' = r.rel
        /\ festival' = r.f
        /\ boundary' = FullState(r.w, r.rel, r.f)
        /\ ticks' = Append(ticks, [path |-> path, status |-> "done", order |-> <<"Movement">> \o r.order,
                                   inFlightAtStart |-> Awaiting # {}, doomed |-> FALSE,
                                   resultsData |-> << >>])

\* Variant: the kernel's results are written to the component arrays when
\* the dispatch is submitted, ahead of the readback.
TickDispatchWritesEarly ==
    LET entities == Query(world, {"Position", "Velocity"})
        pending  == \E i \in Awaiting : ~ticks[i].doomed
    IN  /\ ticks' = Append(ticks, [path |-> "gpu", status |-> IF pending THEN "failed" ELSE "awaiting",
                                   order |-> <<"Movement">>,
                                   inFlightAtStart |-> Awaiting # {}, doomed |-> FALSE,
                                   resultsData |-> Dispatch(Marshal(world, entities), boidsConfig)])
        /\ world' = WriteBack(world, Dispatch(Marshal(world, entities), boidsConfig))
        /\ UNCHANGED <<relationshipStrengths, festival, boundary>>

\* engineTick() up to `await stagingGPUBuffer.mapAsync(...)`: the particle
\* data is marshalled and dispatched.  mapAsync on a buffer whose map is
\* still pending rejects at once.
TickDispatch ==
    LET entities == Query(world, {"Position", "Velocity"})
        pending  == \E i \in Awaiting : ~ticks[i].doomed
    IN  /\ ticks' = Append(ticks, [path |-> "gpu", status |-> IF pending THEN "failed" ELSE "awaiting",
                                   order |-> <<"Movement">>,
                                   inFlightAtStart |-> Awaiting # {}, doomed |-> FALSE,
                                   resultsData |-> Dispatch(Marshal(world, entities), boidsConfig)])
        /\ UNCHANGED <<world, relationshipStrengths, festival, boundary>>

\* engineTick()
EngineTickStart(lucky, dance) ==
    IF isBoidsGpuSystemReady
    THEN IF gpuResources THEN TickDispatch ELSE TickThrough("gpu", world, lucky, dance)
    ELSE TickThrough("cpu", movementSystem(world), lucky, dance)

\* gameLoop(currentTime), d ms after the previous callback
GameLoop(d, lucky, dance) ==
    /\ phase = "running"
    /\ now + d <= MaxTime
    /\ Len(ticks) < MaxTicks
    /\ now' = now + d
    /\ LET deltaTime == now' - lastTickTime
       IN  IF TickDue(deltaTime)
           THEN /\ lastTickTime' = NextLastTickTime(now', deltaTime)
                /\ EngineTickStart(lucky, dance)
           ELSE UNCHANGED <<lastTickTime, world, relationshipStrengths, festival, ticks, boundary>>
    /\ lastCallback' = [elapsed |-> now' - lastTickTime, started |-> Len(ticks') - Len(ticks),
                        advance |-> lastTickTime' - lastTickTime]
    /\ UNCHANGED <<rules, SOCIAL_RULES, boidsConfig, isBoidsGpuSystemReady, gpuResources,
                   criticalErrorMessage, isSaving, lastSaveTime, db, pendingSaves, pendingReinit,
                   phase, opLog, cmp, lastPass>>

\* mapAsync resolves: boidsComputeSystem writes the results back and
\* engineTick goes on with the other four systems.
MapAsyncResolve(i, lucky, dance) ==
    /\ i \in Awaiting /\ ~ticks[i].doomed
    /\ \E r \in {AfterMovement(WriteBack(world, ticks[i].resultsData), relationshipStrengths, festival,
                                 rules, SOCIAL_RULES, lucky, dance)} :
           /\ world' = r.w
           /\ relationshipStrengths' = r.rel
           /\ festival' = r.f
           /\ boundary' = FullState(r.w, r.rel, r.f)
           /\ ticks' = [ticks EXCEPT ![i].status = "done", ![i].order = @ \o r.order]
    /\ UNCHANGED <<rules, SOCIAL_RULES, boidsConfig, lastTickTime, isBoidsGpuSystemReady, gpuResources,
                   criticalErrorMessage, isSaving, lastSaveTime, db, pendingSaves, pendingReinit,
                   now, phase, lastCallback, opLog, cmp, lastPass>>

\* mapAsync rejects, or getMappedRange throws: nothing catches it inside
\* boidsComputeSystem or engineTick, so the promise engineTick() returned
\* rejects and the rest of the tick never runs.
MapAsyncReject(i) ==
    /\ i \in Awaiting
    /\ ticks' = [ticks EXCEPT ![i].status = "failed"]
    /\ UNCHANGED <<world, rules, SOCIAL_RULES, relationshipStrengths, festival, boidsConfig, lastTickTime,
                   isBoidsGpuSystemReady, gpuResources, criticalErrorMessage, isSaving, lastSaveTime,
                   db, pendingSaves, pendingReinit, now, phase, lastCallback, opLog, cmp, lastPass, boundary>>


\* saveState() up to `await dbSet(...)`: the blob is assembled from the
\* state of this moment.
SaveBegin ==
    /\ OpCount("save") < (IF phase = "timer" THEN MaxTimerSaves ELSE MaxSaves)
    /\ opLog' = Append(opLog, [op |-> "save", outcome |-> "begun", error |-> criticalErrorMessage,
                                midTick |-> Awaiting # {}])
    /\ isSaving' = TRUE
    /\ pendingSaves' = Append(pendingSaves, FullState(world, relationshipStrengths, festival))
    /\ UNCHANGED <<world, rules, SOCIAL_RULES, relationshipStrengths, festival, boidsConfig, lastTickTime,
                   isBoidsGpuSystemReady, gpuResources, criticalErrorMessage, lastSaveTime, db,
                   pendingReinit, now, phase, ticks, lastCallback, cmp, lastPass, boundary>>

\* Variant: a save that failed is stamped as the last save all the same.
SaveEndStampsFailure(stored) ==
    /\ pendingSaves # << >>
    /\ pendingSaves' = Tail(pendingSaves)
    /\ isSaving' = FALSE
    /\ IF stored
       THEN db' = Head(pendingSaves) /\ lastSaveTime' = now /\ UNCHANGED criticalErrorMessage
       ELSE criticalErrorMessage' = "save-failed" /\ lastSaveTime' = now /\ UNCHANGED db
    /\ UNCHANGED <<world, rules, SOCIAL_RULES, relationshipStrengths, festival, boidsConfig, lastTickTime,
                   isBoidsGpuSystemReady, gpuResources, pendingReinit, now, phase, ticks,
                   lastCallback, opLog, cmp, lastPass, boundary>>

\* saveState() after dbSet has answered: stored, or the catch block; then finally.
SaveEnd(stored) ==
    /\ pendingSaves # << >>
    /\ pendingSaves' = Tail(pendingSaves)
    /\ isSaving' = FALSE
    /\ IF stored
       THEN db' = Head(pendingSaves) /\ lastSaveTime' = now /\ UNCHANGED criticalErrorMessage
       ELSE criticalErrorMessage' = "save-failed" /\ UNCHANGED <<db, lastSaveTime>>
    /\ UNCHANGED <<world, rules, SOCIAL_RULES, relationshipStrengths, festival, boidsConfig, lastTickTime,
                   isBoidsGpuSystemReady, gpuResources, pendingReinit, now, phase, ticks,
                   lastCallback, opLog, cmp, lastPass, boundary>>

\* The load handler of main.tsx once dbGet has answered: loadState(), and
\* on true the call of reinitializeEngineSystemsAfterLoad() up to its await.
LoadState(got, m) ==
    /\ phase = "running"
    /\ ~pendingReinit
    /\ OpCount("load") < MaxLoads
    /\ \E r \in {loadState(got, m)} :
           /\ world' = r.w
           /\ relationshipStrengths' = r.rel
           /\ festival' = r.f
           /\ boundary' = FullState(r.w, r.rel, r.f)
           /\ criticalErrorMessage' = IF r.loaded THEN NoError ELSE r.error
           /\ pendingReinit' = r.loaded
           /\ opLog' = Append(opLog, [op |-> "load", outcome |-> IF r.loaded THEN "loaded" ELSE "not-loaded",
                                       error |-> criticalErrorMessage', answer |-> Answer(got),
                                       duringSave |-> pendingSaves # << >>, inFlight |-> Awaiting])
    /\ UNCHANGED <<rules, SOCIAL_RULES, boidsConfig, lastTickTime, isBoidsGpuSystemReady, gpuResources,
                   isSaving, lastSaveTime, db, pendingSaves, now, phase, ticks, lastCallback, cmp, lastPass>>

\* What dbGet can answer, with the id maps that go with it.
LoadInputs ==
    {<<Rejected, << >> >>}
      \cup (IF db \in {NoSnapshot, Corrupt} THEN {<<db, << >> >>} ELSE {<<db, m>> : m \in EidMaps(db.eids)})

\* reinitializeEngineSystemsAfterLoad() after initBoidsComputeSystem has
\* answered.  A successful initialisation replaces the buffers, so a tick
\* still awaiting the old staging buffer finds the new one unmapped.
Reinitialize(outcome) ==
    /\ pendingReinit
    /\ pendingReinit' = FALSE
    /\ isBoidsGpuSystemReady' = (outcome = "ready")
    /\ gpuResources' = (gpuResources \/ outcome = "ready")
    /\ criticalErrorMessage' = InitMessage(outcome)
    /\ ticks' = [i \in 1 .. Len(ticks) |->
                   IF outcome = "ready" /\ ticks[i].status = "awaiting"
                   THEN [ticks[i] EXCEPT !.doomed = TRUE] ELSE ticks[i]]
    /\ opLog' = Append(opLog, [op |-> "reinit", outcome |-> outcome, error |-> criticalErrorMessage'])
    /\ UNCHANGED <<world, rules, SOCIAL_RULES, relationshipStrengths, festival, boidsConfig, lastTickTime,
                   isSaving, lastSaveTime, db, pendingSaves, now, phase, lastCallback, cmp, lastPass, boundary>>

\* Outcomes of the foraging draws: nobody lucky, or everybody.
ForageDraws == {{}, world.eids}

\* The engine on its own: start-up, the animation-frame callbacks and the
\* completions of the kernel's readback.
Next ==
    \/ \E outcome \in InitOutcomes : StartEngineLoop(outcome)
    \/ \E d \in ClockSteps, lucky \in ForageDraws, dance \in DanceChoices(festival) : GameLoop(d, lucky, dance)
    \/ \E i \in Awaiting, lucky \in ForageDraws, dance \in DanceChoices(festival) : MapAsyncResolve(i, lucky, dance)
    \/ \E i \in Awaiting : MapAsyncReject(i)

Spec == Init /\ [][Next]_vars

\* A session that finds what an earlier session stored: the snapshot of a
\* freshly initialised population in which entity 0 has groomed entity 1.
EarlierSnapshot ==
    FullState(initializeEntities([e \in 0 .. (NUM_ENTITIES - 1) |-> <<100 * e, 0, 0>>],
                                 [e \in 0 .. (NUM_ENTITIES - 1) |-> <<50, 0, 0>>],
                                 [e \in 0 .. (NUM_ENTITIES - 1) |-> 70 * ENERGY_UNIT]),
              updateRelationshipStrength(EmptyRelationships, 0, 1, 5),
              initializeFestivalState)

InitReload ==
    /\ world = initializeEntities([e \in 0 .. (NUM_ENTITIES - 1) |-> <<4000 * e, 0, 0>>],
                                  [e \in 0 .. (NUM_ENTITIES - 1) |-> <<50, 0, 0>>],
                                  [e \in 0 .. (NUM_ENTITIES - 1) |-> 70 * ENERGY_UNIT])
    /\ rules = << DigestionRule(5 * ENERGY_UNIT, 10) >>
    /\ SOCIAL_RULES = << GroomRule({-50}, 10, -ENERGY_UNIT, 5) >>
    /\ phase = "boot"
    /\ boidsConfig = DefaultBoidsConfig
    /\ lastTickTime = 0
    /\ isBoidsGpuSystemReady = FALSE
    /\ gpuResources = FALSE
    /\ criticalErrorMessage = NoError
    /\ isSaving = FALSE
    /\ lastSaveTime = 0
    /\ db \in {NoSnapshot, EarlierSnapshot}
    /\ pendingSaves = << >>
    /\ pendingReinit = FALSE
    /\ now = MaxTime - TICK_INTERVAL
    /\ ticks = << >>
    /\ lastCallback = [elapsed |-> -1, started |-> 0, advance |-> 0]
    /\ opLog = << >>
    /\ cmp = NoComparison
    /\ lastPass = NoPass
    /\ relationshipStrengths = EmptyRelationships
    /\ festival = initializeFestivalState
    /\ boundary = FullState(world, relationshipStrengths, festival)

\* The engine with the load handler of main.tsx.
NextReload ==
    \/ \E outcome \in InitOutcomes : StartEngineLoop(outcome)
    \/ \E d \in ClockSteps, lucky \in ForageDraws, dance \in DanceChoices(festival) : GameLoop(d, lucky, dance)
    \/ \E i \in Awaiting, lucky \in ForageDraws, dance \in DanceChoices(festival) : MapAsyncResolve(i, lucky, dance)
    \/ \E i \in Awaiting : MapAsyncReject(i)
    \/ \E in \in LoadInputs : LoadState(in[1], in[2])
    \/ \E outcome \in InitOutcomes : Reinitialize(outcome)

SpecReload == InitReload /\ [][NextReload]_vars


(***************************************************************************)
(* Energy, mood and relationships under arbitrary rule data                *)
(***************************************************************************)
\* A machine without WebGPU: initBoidsComputeSystem never answers "ready".
NoGpuOutcomes == {"unavailable", "throws"}

\* The engine running on the CPU path after a failed kernel start, with rule
\* files whose deltas have either sign, and a population whose energy is
\* nearly spent or nearly full.
InitVitals ==
    /\ \E e0 \in {2, 100 * ENERGY_UNIT - 1} :
          world = initializeEntities([e \in 0 .. (NUM_ENTITIES - 1) |-> <<100 * e, 0, 0>>],
                                     [e \in 0 .. (NUM_ENTITIES - 1) |-> <<10, 0, 0>>],
                                     [e \in 0 .. (NUM_ENTITIES - 1) |-> e0])
    /\ \E sgn \in {-1, 1} : rules = << DigestionRule(sgn * 5 * ENERGY_UNIT, sgn * 60) >>
    /\ \E sgn \in {-1, 1}, gt \in {{}, {-50}} :
          SOCIAL_RULES = << GroomRule(gt, sgn * 60, sgn * 5 * ENERGY_UNIT, sgn * 60) >>
    /\ phase = "running"
    /\ opLog = << [op |-> "start", outcome |-> "unavailable", error |-> "gpu-init-failed"] >>
    /\ boidsConfig = DefaultBoidsConfig
    /\ lastTickTime = 0
    /\ isBoidsGpuSystemReady = FALSE
    /\ gpuResources = FALSE
    /\ criticalErrorMessage = "gpu-init-failed"
    /\ isSaving = FALSE
    /\ lastSaveTime = 0
    /\ db = NoSnapshot
    /\ pendingSaves = << >>
    /\ pendingReinit = FALSE
    /\ now = 0
    /\ ticks = << >>
    /\ lastCallback = [elapsed |-> -1, started |-> 0, advance |-> 0]
    /\ cmp = NoComparison
    /\ lastPass = NoPass
    /\ relationshipStrengths = EmptyRelationships
    /\ festival = initializeFestivalState
    /\ boundary = FullState(world, relationshipStrengths, festival)

NextVitals ==
    \/ \E lucky \in ForageDraws, dance \in DanceChoices(festival) : GameLoop(TICK_INTERVAL, lucky, dance)
    \/ SaveBegin
    \/ \E stored \in BOOLEAN : SaveEnd(stored)
    \/ \E in \in LoadInputs : LoadState(in[1], in[2])
    \/ \E outcome \in NoGpuOutcomes : Reinitialize(outcome)

SpecVitals == InitVitals /\ [][NextVitals]_vars

TickRan == ticks # << >> /\ ticks[Len(ticks)].status = "done"

\* C1: after any tick every entity carrying Energy has
\* 0 <= Energy.current <= Energy.max, whatever the rule deltas.
C1_EnergyWithinBounds ==
    TickRan =>
        \A e \in world.eids :
            e \in world.has["Energy"] =>
                0 <= world.Energy[e].current /\ world.Energy[e].current <= world.Energy[e].max

\* C2: after any tick every entity carrying Mood has
\* -1 <= Mood.happiness <= 1, whatever the rule deltas.
C2_HappinessWithinBounds ==
    TickRan =>
        \A e \in world.eids :
            e \in world.has["Mood"] => -MOOD_UNIT <= world.Mood[e] /\ world.Mood[e] <= MOOD_UNIT

\* A second tick has left an entity at a bound that the unclamped sum of
\* two deltas of 0.6 would have passed.
C2_Witness ==
    /\ Len(ticks) >= 2 /\ TickRan
    /\ \E e \in world.eids : world.Mood[e] = MOOD_UNIT \/ world.Mood[e] = -MOOD_UNIT

\* C3: in every state every stored relationship weight lies in [-1, 1], and
\* weight(A,B) is stored iff weight(B,A) is stored, with the same value.
C3_RelationshipsSymmetric ==
    \A p \in DOMAIN relationshipStrengths :
        /\ -100 <= relationshipStrengths[p] /\ relationshipStrengths[p] <= 100
        /\ <<p[2], p[1]>> \in DOMAIN relationshipStrengths
        /\ relationshipStrengths[<<p[2], p[1]>>] = relationshipStrengths[p]

\* Relationships restored by a load onto an id the saving session never
\* used, carrying a weight that social ticks had driven to a bound.
C3_Witness ==
    /\ \E i \in 1 .. Len(opLog) : opLog[i].op = "load" /\ opLog[i].outcome = "loaded"
    /\ \E p \in DOMAIN relationshipStrengths :
          /\ p[1] >= NUM_ENTITIES
          /\ relationshipStrengths[p] \in {-100, 100}

(***************************************************************************)
(* The kernel and the CPU movement system on the same input                *)
(***************************************************************************)
\* Where the other particles start relative to the first, on the x axis:
\* on top of it, inside separation_distance, exactly at separation_distance,
\* inside perception_radius only, exactly at perception_radius, out of
\* reach, and next to the world's boundary.
BenchOffsets == {0, 100, 200, 500, 1000, 2000, 4990}
BenchVelocities == {<<0, 0, 0>>, <<100, 0, 0>>, <<300, 0, 0>>}
BenchOtherVelocities == {<<0, 0, 0>>, <<-50, 50, 0>>, <<100, 0, 0>>}
\* The defaults with the largest delta_time (0.5), max_force (1.0),
\* cohesion_factor (0.2) and alignment_factor (0.2) the debug panel offers.
StrongSteering ==
    [DefaultBoidsConfig EXCEPT !.delta_time = FP \div 2, !.max_force = FP,
                               !.cohesion_factor = FP \div 5, !.alignment_factor = FP \div 5]

\* Parameter blocks: the defaults, the defaults with the largest delta_time
\* the debug panel offers, the panel's strongest steering, and the latter
\* with perception_radius 0, a value of the uniform block that the panel's
\* slider (minimum 1) does not produce.
BenchConfigs ==
    { DefaultBoidsConfig,
      [DefaultBoidsConfig EXCEPT !.delta_time = FP \div 2],
      StrongSteering,
      [StrongSteering EXCEPT !.perception_radius = 0] }

\* Particle 0 at the origin, the others at the offset on either side of it.
BenchPosition(x, e) ==
    IF e = 0 THEN Zero3 ELSE IF e % 2 = 1 THEN <<x, 0, 0>> ELSE <<-x, 0, 0>>

InitBench ==
    /\ \E x \in BenchOffsets, v0 \in BenchVelocities, v1 \in BenchOtherVelocities :
          world = initializeEntities([e \in 0 .. (NUM_ENTITIES - 1) |-> BenchPosition(x, e)],
                                     [e \in 0 .. (NUM_ENTITIES - 1) |-> IF e = 0 THEN v0 ELSE v1],
                                     [e \in 0 .. (NUM_ENTITIES - 1) |-> 70 * ENERGY_UNIT])
    /\ boidsConfig \in BenchConfigs
    /\ rules = << >>
    /\ SOCIAL_RULES = << >>
    /\ phase = "bench"
    /\ opLog = << >>
    /\ lastTickTime = 0
    /\ isBoidsGpuSystemReady = TRUE
    /\ gpuResources = TRUE
    /\ criticalErrorMessage = NoError
    /\ isSaving = FALSE
    /\ lastSaveTime = 0
    /\ db = NoSnapshot
    /\ pendingSaves = << >>
    /\ pendingReinit = FALSE
    /\ now = 0
    /\ ticks = << >>
    /\ lastCallback = [elapsed |-> -1, started |-> 0, advance |-> 0]
    /\ cmp = NoComparison
    /\ lastPass = NoPass
    /\ relationshipStrengths = EmptyRelationships
    /\ festival = initializeFestivalState
    /\ boundary = FullState(world, relationshipStrengths, festival)

\* One movement step computed both ways from the same world: by
\* movementSystem, and by boidsComputeSystem's marshal, dispatch and
\* writeback.  The world goes on from the kernel's result.
BenchMove ==
    /\ phase = "bench"
    /\ cmp.steps < MaxTicks
    /\ \E g \in {WriteBack(world, Dispatch(Marshal(world, Query(world, {"Position", "Velocity"})), boidsConfig))},
          c \in {movementSystem(world)} :
          /\ cmp' = [done |-> TRUE, steps |-> cmp.steps + 1,
                     cpu |-> [Position |-> c.Position, Velocity |-> c.Velocity],
                     gpu |-> [Position |-> g.Position, Velocity |-> g.Velocity]]
          /\ world' = g
    /\ lastPass' = [system |-> "Movement", w |-> world]
    /\ UNCHANGED <<rules, SOCIAL_RULES, relationshipStrengths, festival, boidsConfig, lastTickTime,
                   isBoidsGpuSystemReady, gpuResources, criticalErrorMessage, isSaving, lastSaveTime, db,
                   pendingSaves, pendingReinit, now, phase, ticks, lastCallback, opLog, boundary>>

NextBench == BenchMove

SpecBench == InitBench /\ [][NextBench]_vars

\* C10: for every input state and parameter block, the CPU movement step
\* and the kernel produce the same Position and Velocity for every entity.
C10_CpuEquivalentToKernel == cmp.done => cmp.cpu = cmp.gpu

(***************************************************************************)
(* Properties of one kernel dispatch: lastPass.w is the world the dispatch *)
(* read, world the one it wrote                                            *)
(***************************************************************************)
KernelRan == lastPass.system = "Movement"

\* squared distance between two particles of the input
InputDistSq(a, b) ==
    LET d == VSub(lastPass.w.Position[a], lastPass.w.Position[b]) IN Dot(d, d)

\* 0 < d < radius
StrictlyWithin(a, b, radius) == 0 < InputDistSq(a, b) /\ InputDistSq(a, b) < radius * radius

NoneWithin(e, radius) == \A o \in lastPass.w.eids \ {e} : ~StrictlyWithin(e, o, radius)

\* the input position advanced by the output velocity times delta_time
Integrated(e) == VAdd(lastPass.w.Position[e], VScale(world.Velocity[e], boidsConfig.delta_time, FP))

Unsteered(e) ==
    world.Velocity[e] = limit(lastPass.w.Velocity[e], boidsConfig.max_speed)

\* C11 as stated: a particle with no other particle strictly within either
\* radius leaves the kernel with its input velocity limited to max_speed and
\* with its position advanced by that velocity times delta_time.
C11_NoNeighboursNoSteering ==
    KernelRan =>
        \A e \in lastPass.w.eids :
            NoneWithin(e, boidsConfig.perception_radius) /\ NoneWithin(e, boidsConfig.separation_distance)
            => Unsteered(e) /\ world.Position[e] = Integrated(e)

\* C11 as amended: the same, the advanced position passed through the
\* boundary wrap.
C11_NoNeighboursNoSteeringThenWrap ==
    KernelRan =>
        \A e \in lastPass.w.eids :
            NoneWithin(e, boidsConfig.perception_radius) /\ NoneWithin(e, boidsConfig.separation_distance)
            => Unsteered(e) /\ world.Position[e] = wrap_around(Integrated(e), boidsConfig)

\* A particle far from every other one left the kernel slowed down to
\* max_speed and displaced.
C11_Witness ==
    /\ KernelRan
    /\ boidsConfig.perception_radius > 0
    /\ \E e \in lastPass.w.eids :
          /\ lastPass.w.eids \ {e} # {}
          /\ NoneWithin(e, boidsConfig.perception_radius)
          /\ NoneWithin(e, boidsConfig.separation_distance)
          /\ world.Velocity[e] # lastPass.w.Velocity[e]
          /\ world.Position[e] # lastPass.w.Position[e]

\* The particle the kernel writes for e when a rule's factor is zero.
WithoutSeparation(e) ==
    main(Marshal(lastPass.w, Query(lastPass.w, {"Position", "Velocity"})), e,
         [boidsConfig EXCEPT !.separation_factor = 0])
WithoutCohesionAlignment(e) ==
    main(Marshal(lastPass.w, Query(lastPass.w, {"Position", "Velocity"})), e,
         [boidsConfig EXCEPT !.cohesion_factor = 0, !.alignment_factor = 0])

\* C12: the neighbour tests are strict on both ends.  A particle whose
\* others are all coincident with it or at separation_distance or farther
\* gets no separation; one whose others are all coincident or at
\* perception_radius or farther gets no cohesion and no alignment.
C12_NeighbourTestsStrict ==
    KernelRan =>
        \A e \in lastPass.w.eids :
            /\ (\A o \in lastPass.w.eids \ {e} :
                    InputDistSq(e, o) = 0
                    \/ InputDistSq(e, o) >= boidsConfig.separation_distance * boidsConfig.separation_distance)
               => /\ world.Velocity[e] = WithoutSeparation(e).vel
                  /\ world.Position[e] = WithoutSeparation(e).pos
            /\ (\A o \in lastPass.w.eids \ {e} :
                    InputDistSq(e, o) = 0
                    \/ InputDistSq(e, o) >= boidsConfig.perception_radius * boidsConfig.perception_radius)
               => /\ world.Velocity[e] = WithoutCohesionAlignment(e).vel
                  /\ world.Position[e] = WithoutCohesionAlignment(e).pos

\* Two particles exactly separation_distance apart went through the kernel,
\* and cohesion moved one of them.
C12_Witness ==
    /\ KernelRan
    /\ boidsConfig.separation_factor > 0
    /\ \E e \in lastPass.w.eids, o \in lastPass.w.eids :
          /\ e # o
          /\ InputDistSq(e, o) = boidsConfig.separation_distance * boidsConfig.separation_distance
          /\ InputDistSq(e, o) > 0
          /\ world.Velocity[e] # lastPass.w.Velocity[e]

HalfExtent(axis) ==
    DivT(<<boidsConfig.world_size_x, boidsConfig.world_size_y, boidsConfig.world_size_z>>[axis], 2)

\* C13: on each axis a position exactly at +halfExtent after integration
\* leaves the kernel at -halfExtent, and a position strictly inside
\* (-halfExtent, +halfExtent) leaves it unchanged.
C13_WrapAtHalfExtent ==
    KernelRan =>
        \A e \in lastPass.w.eids : \A axis \in 1 .. 3 :
            /\ Integrated(e)[axis] = HalfExtent(axis) => world.Position[e][axis] = -HalfExtent(axis)
            /\ (-HalfExtent(axis) < Integrated(e)[axis] /\ Integrated(e)[axis] < HalfExtent(axis))
               => world.Position[e][axis] = Integrated(e)[axis]

InitIdle ==
    /\ boidsConfig = DefaultBoidsConfig
    /\ lastTickTime = 0
    /\ isBoidsGpuSystemReady = FALSE
    /\ gpuResources = FALSE
    /\ criticalErrorMessage = NoError
    /\ isSaving = FALSE
    /\ lastSaveTime = 0
    /\ db = NoSnapshot
    /\ pendingSaves = << >>
    /\ pendingReinit = FALSE
    /\ now = 0
    /\ ticks = << >>
    /\ lastCallback = [elapsed |-> -1, started |-> 0, advance |-> 0]
    /\ opLog = << >>
    /\ cmp = NoComparison
    /\ lastPass = NoPass
    /\ boundary = FullState(world, relationshipStrengths, festival)

\* Rule sets social.json can hold: one Groom rule, two Groom rules that can
\* both apply to a pair, a rule of another verb ahead of a Groom rule, and
\* a Groom rule reaching farther than one grid cell.
SocialRuleSets ==
    { << SocialRule("Groom", {2 * FP}, {-50}, 10, -ENERGY_UNIT, 10) >>,
      << SocialRule("Groom", {2 * FP}, {-50}, 10, -ENERGY_UNIT, 10),
         SocialRule("Groom", {2 * FP}, {}, 5, 0, 5) >>,
      << SocialRule("Challenge", {2 * FP}, {}, -20, 0, -20),
         SocialRule("Groom", {2 * FP}, {-50}, 10, -ENERGY_UNIT, 10) >>,
      << SocialRule("Groom", {8 * FP}, {}, 10, -ENERGY_UNIT, 10) >> }

\* Entity 0 in the middle of a grid cell or next to its upper face; the
\* others 1.0, 2.0 or 6.5 away from it.
SocialBases == {0, 4 * FP}
SocialOffsets == {FP, 2 * FP, (13 * FP) \div 2}
SocialPosition(x0, dx, e) ==
    IF e = 0 THEN <<x0, 0, 0>> ELSE IF e % 2 = 1 THEN <<x0 + dx, 0, 0>> ELSE <<x0, dx, 0>>

\* Relationships of an earlier tick: none, or every pair close to the bound.
AllPairs(w) == {p \in w.eids \X w.eids : p[1] # p[2]}
SocialRelationships(w) == {EmptyRelationships, [p \in AllPairs(w) |-> 95]}

InitSocial ==
    /\ \E x0 \in SocialBases, dx \in SocialOffsets :
          world = initializeEntities([e \in 0 .. (NUM_ENTITIES - 1) |-> SocialPosition(x0, dx, e)],
                                     [e \in 0 .. (NUM_ENTITIES - 1) |-> Zero3],
                                     [e \in 0 .. (NUM_ENTITIES - 1) |-> 70 * ENERGY_UNIT])
    /\ rules = << >>
    /\ SOCIAL_RULES \in SocialRuleSets
    /\ relationshipStrengths \in SocialRelationships(world)
    /\ festival = initializeFestivalState
    /\ phase = "social"
    /\ InitIdle

PassCount == IF lastPass.system = "none" THEN 0 ELSE lastPass.steps

\* socialSystem(world) called once.  lastPass keeps what it started from,
\* the candidates getNearbyEntities returned for each initiator and the rule
\* applications made, in order.
SocialPass ==
    /\ phase = "social"
    /\ PassCount < MaxTicks
    /\ \E r \in {socialSystem(world, relationshipStrengths, SOCIAL_RULES)} :
          /\ world' = r.w
          /\ relationshipStrengths' = r.rel
          /\ lastPass' =
                LET entities == Query(world, {"Position", "Energy", "Mood"})
                    grid     == updateSpatialGrid(world, entities)
                IN  [ system     |-> "Social",
                      steps      |-> PassCount + 1,
                      w          |-> world,
                      rel        |-> relationshipStrengths,
                      candidates |-> [i \in {entities[k] : k \in 1 .. Len(entities)} |->
                                         getNearbyEntities(world, grid, i, MAX_SOCIAL_INTERACTION_RADIUS)],
                      applied    |-> r.applied ]
    /\ UNCHANGED <<rules, SOCIAL_RULES, festival, boidsConfig, lastTickTime, isBoidsGpuSystemReady,
                   gpuResources, criticalErrorMessage, isSaving, lastSaveTime, db, pendingSaves,
                   pendingReinit, now, phase, ticks, lastCallback, opLog, cmp, boundary>>

NextSocial == SocialPass

SpecSocial == InitSocial /\ [][NextSocial]_vars

SocialRan == lastPass.system = "Social"

\* the entities socialQuery returned to the pass
Eligible == {e \in lastPass.w.eids : \A c \in {"Position", "Energy", "Mood"} : e \in lastPass.w.has[c]}

PassDistSq(a, b) ==
    LET d == VSub(lastPass.w.Position[a], lastPass.w.Position[b]) IN Dot(d, d)

SeqRange(list) == {list[k] : k \in 1 .. Len(list)}

\* the largest distance_lt of any loaded rule
LargestDistanceLt ==
    LET lts == UNION {SOCIAL_RULES[k].distance_lt : k \in 1 .. Len(SOCIAL_RULES)}
    IN  IF lts = {} THEN 0 ELSE CHOOSE x \in lts : \A y \in lts : y <= x

\* C15: for every initiator, every other eligible entity closer than the
\* largest distance_lt of the loaded rules is among the candidates the grid
\* returns; the initiator is not, and no id is there twice.
C15_BroadPhaseComplete ==
    SocialRan =>
        \A i \in Eligible :
            LET cand == lastPass.candidates[i] IN
            /\ \A t \in Eligible \ {i} :
                  PassDistSq(i, t) < LargestDistanceLt * LargestDistanceLt => t \in SeqRange(cand)
            /\ i \notin SeqRange(cand)
            /\ \A a, b \in 1 .. Len(cand) : a # b => cand[a] # cand[b]

\* C16: in one pass no ordered pair (initiator, target) has effects applied
\* more than once, and nothing is applied by an entity to itself.
C16_OncePerOrderedPair ==
    SocialRan =>
        /\ \A a, b \in 1 .. Len(lastPass.applied) :
              a # b => <<lastPass.applied[a][1], lastPass.applied[a][2]>>
                       # <<lastPass.applied[b][1], lastPass.applied[b][2]>>
        /\ \A a \in 1 .. Len(lastPass.applied) : lastPass.applied[a][1] # lastPass.applied[a][2]

\* A pass over a pair for which two rules held at once, one of them applied.
C16_Witness ==
    /\ SocialRan
    /\ Len(SOCIAL_RULES) >= 2
    /\ \E i \in Eligible, t \in Eligible :
          /\ i # t
          /\ \A k \in 1 .. Len(SOCIAL_RULES) :
                /\ SOCIAL_RULES[k].verb = "Groom"
                /\ PreconditionsMet(lastPass.w, lastPass.rel, SOCIAL_RULES[k], i, t)
          /\ \E a \in 1 .. Len(lastPass.applied) :
                lastPass.applied[a][1] = i /\ lastPass.applied[a][2] = t

\* The pair the pass looks at first: it is evaluated on the state the pass
\* started from.
FirstInitiator == CHOOSE i \in Eligible : \A j \in Eligible : i <= j
FirstPairExists == Eligible # {} /\ lastPass.candidates[FirstInitiator] # << >>
FirstTarget == Head(lastPass.candidates[FirstInitiator])
RulesHolding(i, t) ==
    {k \in 1 .. Len(SOCIAL_RULES) : PreconditionsMet(lastPass.w, lastPass.rel, SOCIAL_RULES[k], i, t)}

\* C17: the rule applied to a pair is the first rule in declaration order
\* whose preconditions hold, whatever its verb.
C17_FirstRuleOfAnyVerb ==
    SocialRan /\ FirstPairExists /\ RulesHolding(FirstInitiator, FirstTarget) # {} =>
        LET hold == RulesHolding(FirstInitiator, FirstTarget)
            k    == CHOOSE x \in hold : \A y \in hold : x <= y
        IN  /\ lastPass.applied # << >>
            /\ lastPass.applied[1] = <<FirstInitiator, FirstTarget, SOCIAL_RULES[k].verb>>

\* applications of the pass between a and b, in either direction
Between(a, b) ==
    {k \in 1 .. Len(lastPass.applied) :
        {lastPass.applied[k][1], lastPass.applied[k][2]} = {a, b}}

\* C18: for two eligible entities that the grid returns to each other, within
\* distance_lt of the single Groom rule and with relationship above its
\* relationship_gt, the pass makes one rule application and leaves the
\* weight at the old weight plus relationshipChange (clamped), the same in
\* both directions.
C18_OneApplicationExactDelta ==
    SocialRan /\ Len(SOCIAL_RULES) = 1 /\ SOCIAL_RULES[1].verb = "Groom" =>
        \A a \in Eligible, b \in Eligible :
            ( /\ a # b
              /\ Eligible = {a, b}
              /\ b \in SeqRange(lastPass.candidates[a])
              /\ a \in SeqRange(lastPass.candidates[b])
              /\ PreconditionsMet(lastPass.w, lastPass.rel, SOCIAL_RULES[1], a, b) )
            => /\ Cardinality(Between(a, b)) = 1
               /\ getRelationshipStrength(relationshipStrengths, a, b)
                    = ClampStrength(getRelationshipStrength(lastPass.rel, a, b) + SOCIAL_RULES[1].relationshipChange)
               /\ getRelationshipStrength(relationshipStrengths, b, a)
                    = getRelationshipStrength(relationshipStrengths, a, b)

(***************************************************************************)
(* feedCreature and metabolismSystem on their own                          *)
(***************************************************************************)
\* Energy.current before the pass: empty, below one basal drain, mid-range,
\* and just under Energy.max.
DigestEnergies == {0, 2, 70 * ENERGY_UNIT, 100 * ENERGY_UNIT - 1}
FeedAmounts == {1, 2}
\* amounts that are no meal: nothing, and less than nothing
NoMealAmounts == {-1, 0}
\* the food type of FOOD_TYPE_MAP and one that is not in it
FeedTypes == {"sweet", "sour"}

InitDigest ==
    /\ \E e0 \in DigestEnergies :
          world = initializeEntities([e \in 0 .. (NUM_ENTITIES - 1) |-> <<100 * e, 0, 0>>],
                                     [e \in 0 .. (NUM_ENTITIES - 1) |-> Zero3],
                                     [e \in 0 .. (NUM_ENTITIES - 1) |-> e0])
    /\ \E sgn \in {-1, 1} : rules = << DigestionRule(sgn * 5 * ENERGY_UNIT, sgn * 10) >>
    /\ SOCIAL_RULES = << >>
    /\ relationshipStrengths = EmptyRelationships
    /\ festival = initializeFestivalState
    /\ phase = "digest"
    /\ InitIdle

\* feedCreature(entityId, foodType, amount) called from outside the tick.
Feed(entityId, foodType, amount) ==
    /\ phase = "digest"
    /\ PassCount < MaxTicks
    /\ world' = feedCreature(world, entityId, foodType, amount)
    /\ lastPass' = [system |-> "Feed", steps |-> PassCount, w |-> world,
                    entityId |-> entityId, foodType |-> foodType, amount |-> amount]
    /\ UNCHANGED <<rules, SOCIAL_RULES, relationshipStrengths, festival, boidsConfig, lastTickTime,
                   isBoidsGpuSystemReady, gpuResources, criticalErrorMessage, isSaving, lastSaveTime, db,
                   pendingSaves, pendingReinit, now, phase, ticks, lastCallback, opLog, cmp, boundary>>

\* metabolismSystem(world) called once; lastPass keeps the world it started from.
MetabolismPass ==
    /\ phase = "digest"
    /\ PassCount < MaxTicks
    /\ world' = metabolismSystem(world, rules)
    /\ lastPass' = [system |-> "Metabolism", steps |-> PassCount + 1, w |-> world]
    /\ UNCHANGED <<rules, SOCIAL_RULES, relationshipStrengths, festival, boidsConfig, lastTickTime,
                   isBoidsGpuSystemReady, gpuResources, criticalErrorMessage, isSaving, lastSaveTime, db,
                   pendingSaves, pendingReinit, now, phase, ticks, lastCallback, opLog, cmp, boundary>>

NextDigest ==
    \/ \E entityId \in world.eids, amount \in FeedAmounts : Feed(entityId, "sweet", amount)
    \/ MetabolismPass

SpecDigest == InitDigest /\ [][NextDigest]_vars

\* feedCreature as an exported utility: any id of the store, a food type of
\* FOOD_TYPE_MAP or another, any amount; evolution.json with a rule for the
\* food type or without one.  One call between two metabolism passes.
InitFeed ==
    /\ world = initializeEntities([e \in 0 .. (NUM_ENTITIES - 1) |-> <<100 * e, 0, 0>>],
                                  [e \in 0 .. (NUM_ENTITIES - 1) |-> Zero3],
                                  [e \in 0 .. (NUM_ENTITIES - 1) |-> 70 * ENERGY_UNIT])
    /\ rules \in { << >>, << DigestionRule(5 * ENERGY_UNIT, 10) >> }
    /\ SOCIAL_RULES = << >>
    /\ relationshipStrengths = EmptyRelationships
    /\ festival = initializeFestivalState
    /\ phase = "digest"
    /\ InitIdle

NextFeed ==
    \/ /\ lastPass.system # "Feed"
       /\ \E entityId \in Ids, foodType \in FeedTypes, amount \in FeedAmounts \cup NoMealAmounts :
             Feed(entityId, foodType, amount)
    \/ MetabolismPass

SpecFeed == InitFeed /\ [][NextFeed]_vars

MetabolismRan == lastPass.system = "Metabolism"

\* the entities whose stomach held food with a loaded rule that changes energy
Digesting ==
    {e \in lastPass.w.eids :
        /\ \A c \in {"Stomach", "Energy", "Mood", "Phenotype"} : e \in lastPass.w.has[c]
        /\ lastPass.w.Stomach[e].foodTypeToDigest = FoodTypeId("sweet")
        /\ lastPass.w.Stomach[e].amountToDigest > 0
        /\ rules # << >> /\ rules[1].foodType = "sweet" /\ rules[1].energyChange # 0}

StomachEmpty(e) == world.Stomach[e] = [foodTypeToDigest |-> 0, amountToDigest |-> 0]

FeedRan == lastPass.system = "Feed"

\* C32: feedCreature called with a food type that is not in FOOD_TYPE_MAP,
\* or with an entity id that does not carry Stomach, leaves the Stomach
\* arrays as they were.
C32_FeedOnlyWithStomach ==
    ( /\ FeedRan
      /\ \/ FoodTypeId(lastPass.foodType) = 0
         \/ lastPass.entityId \notin lastPass.w.has["Stomach"] )
        => world.Stomach = lastPass.w.Stomach

MetabolismEligible ==
    {e \in lastPass.w.eids : \A c \in {"Stomach", "Energy", "Mood", "Phenotype"} : e \in lastPass.w.has[c]}

\* C33: after metabolismSystem has run, the stomach of every
\* metabolism-eligible entity is empty (food type 0, amount 0), whatever
\* feedCreature had placed in it.
C33_DigestionAllOrNothing ==
    MetabolismRan => \A e \in MetabolismEligible : StomachEmpty(e)

\* C19 as stated: an entity digesting amount a under a rule with energyChange
\* e ends the pass with its energy changed by exactly e*a, capped at
\* Energy.max, and with an empty stomach.
C19_DeltaIsChangeTimesAmount ==
    MetabolismRan =>
        \A e \in Digesting :
            /\ world.Energy[e].current
                 = Min2(lastPass.w.Energy[e].max,
                        lastPass.w.Energy[e].current
                          + rules[1].energyChange * lastPass.w.Stomach[e].amountToDigest)
            /\ StomachEmpty(e)

\* C19 as amended: e*a is added to the energy left by the basal drain of the
\* same pass (old energy minus BASAL_METABOLISM_RATE, floored at 0), the sum
\* capped at Energy.max; the stomach is empty afterwards.
C19_DeltaOnTopOfBasalDrain ==
    MetabolismRan =>
        \A e \in Digesting :
            /\ world.Energy[e].current
                 = Min2(lastPass.w.Energy[e].max,
                        Max2(0, lastPass.w.Energy[e].current - BASAL_METABOLISM_RATE)
                          + rules[1].energyChange * lastPass.w.Stomach[e].amountToDigest)
            /\ StomachEmpty(e)

\* An entity fed amount 2 under energyChange +5 gained 10 less the basal
\* drain, below Energy.max.
C19_Witness ==
    /\ MetabolismRan
    /\ \E e \in Digesting :
          /\ lastPass.w.Stomach[e].amountToDigest = 2
          /\ rules[1].energyChange = 5 * ENERGY_UNIT
          /\ world.Energy[e].current = lastPass.w.Energy[e].current - BASAL_METABOLISM_RATE + 10 * ENERGY_UNIT
          /\ world.Energy[e].current < world.Energy[e].max
          /\ StomachEmpty(e)

(***************************************************************************)
(* festivalSystem on its own                                               *)
(***************************************************************************)
\* Mood.happiness of the population: everybody at 0.9, everybody exactly at
\* the threshold, one entity at 1.0 with the others at 0.61, everybody
\* exactly at the lower threshold, and everybody at 0.5.
FestivalMoods ==
    { [e \in Ids |-> 90], [e \in Ids |-> HAPPINESS_THRESHOLD], [e \in Ids |-> IF e = 0 THEN 100 ELSE 61],
      [e \in Ids |-> HAPPINESS_LOW_THRESHOLD], [e \in Ids |-> 50] }

\* The streak at the start: none, or what earlier happy ticks have built up.
FestivalStreaks ==
    { 0, TICKS_FOR_HIGH_HAPPINESS_TO_TRIGGER_FESTIVAL - 2, TICKS_FOR_HIGH_HAPPINESS_TO_TRIGGER_FESTIVAL - 1 }

\* A festival that a tick started when the streak reached the trigger
\* count: it has just begun, or has one or two ticks left to run.
FestivalStartTick == TICKS_FOR_HIGH_HAPPINESS_TO_TRIGGER_FESTIVAL
FestivalsUnderWay ==
    { [initializeFestivalState EXCEPT !.isSpiralDanceActive = TRUE,
                                      !.festivalEndTick = FestivalStartTick + FESTIVAL_DURATION_TICKS,
                                      !.currentTick = t] :
        t \in { FestivalStartTick,
                FestivalStartTick + FESTIVAL_DURATION_TICKS - 2,
                FestivalStartTick + FESTIVAL_DURATION_TICKS - 1 } }

\* The population with the given moods; under a festival every entity
\* carries the dancer tag the start of the festival gave it.
FestivalWorld(m, f) ==
    [initializeEntities([e \in 0 .. (NUM_ENTITIES - 1) |-> <<100 * e, 0, 0>>],
                        [e \in 0 .. (NUM_ENTITIES - 1) |-> Zero3],
                        [e \in 0 .. (NUM_ENTITIES - 1) |-> 70 * ENERGY_UNIT])
     EXCEPT !.Mood = [e \in Ids |-> IF e < NUM_ENTITIES THEN m[e] ELSE 0],
            !.CulturalTag = [e \in Ids |-> IF e < NUM_ENTITIES /\ f.isSpiralDanceActive THEN 1 ELSE 0]]

\* The festival started on its own from: a population between festivals, a
\* population in a festival, and the empty world a load leaves behind when
\* it fails or finds a snapshot without entities, some ticks later.
InitFestival ==
    /\ \/ \E m \in FestivalMoods, n \in FestivalStreaks :
             /\ festival = [initializeFestivalState EXCEPT !.ticksWithHighHappiness = n, !.currentTick = n]
             /\ world = FestivalWorld(m, festival)
       \/ \E m \in FestivalMoods :
             /\ festival \in FestivalsUnderWay
             /\ world = FestivalWorld(m, festival)
       \/ /\ festival \in {initializeFestivalState, [initializeFestivalState EXCEPT !.currentTick = 7]}
          /\ world = BlankWorld
    /\ rules = << >>
    /\ SOCIAL_RULES = << >>
    /\ relationshipStrengths = EmptyRelationships
    /\ phase = "festival"
    /\ InitIdle

\* festivalSystem(world) called once; lastPass keeps the world and the
\* festival state it started from.
FestivalPass(dance) ==
    /\ phase = "festival"
    /\ PassCount < MaxTicks
    /\ \E r \in {festivalSystem(world, festival, dance)} :
          /\ world' = r.w
          /\ festival' = r.f
    /\ lastPass' = [system |-> "Festival", steps |-> PassCount + 1, w |-> world, f |-> festival]
    /\ UNCHANGED <<rules, SOCIAL_RULES, relationshipStrengths, boidsConfig, lastTickTime,
                   isBoidsGpuSystemReady, gpuResources, criticalErrorMessage, isSaving, lastSaveTime, db,
                   pendingSaves, pendingReinit, now, phase, ticks, lastCallback, opLog, cmp, boundary>>

NextFestival == \E dance \in DanceChoices(festival) : FestivalPass(dance)

SpecFestival == InitFestival /\ [][NextFestival]_vars

\* The scheduler keeps calling engineTick, and with it festivalSystem.
SpecFestivalLive == SpecFestival /\ WF_vars(NextFestival)

FestivalRan == lastPass.system = "Festival"

\* the population's average happiness at the pass was above the threshold
AverageWasHigh ==
    LET pop == {e \in lastPass.w.eids : e \in lastPass.w.has["Mood"]}
    IN  /\ pop # {}
        /\ SumSeq(lastPass.w.Mood, SetToSortedSeq(pop)) > HAPPINESS_THRESHOLD * Cardinality(pop)

FestivalParticipants ==
    {e \in lastPass.w.eids :
        \A c \in {"Position", "Velocity", "CulturalTag", "Mood"} : e \in lastPass.w.has[c]}

\* C20: while Inactive, a tick with high average happiness starts the
\* festival exactly when it takes the streak to the trigger count: the end
\* tick is then currentTick + duration, the streak is back at 0 and every
\* participant is tagged; a tick that leaves the streak below the trigger
\* count only adds one to it.  While Active the festival is not started again.
C20_FestivalStartsAtTriggerCount ==
    FestivalRan =>
        /\ (~lastPass.f.isSpiralDanceActive /\ AverageWasHigh) =>
              IF lastPass.f.ticksWithHighHappiness + 1 >= TICKS_FOR_HIGH_HAPPINESS_TO_TRIGGER_FESTIVAL
              THEN /\ festival.isSpiralDanceActive
                   /\ festival.festivalEndTick = festival.currentTick + FESTIVAL_DURATION_TICKS
                   /\ festival.currentTick = lastPass.f.currentTick + 1
                   /\ festival.ticksWithHighHappiness = 0
                   /\ \A e \in FestivalParticipants : world.CulturalTag[e] = 1
              ELSE /\ ~festival.isSpiralDanceActive
                   /\ festival.ticksWithHighHappiness = lastPass.f.ticksWithHighHappiness + 1
                   /\ world.CulturalTag = lastPass.w.CulturalTag
        /\ (lastPass.f.isSpiralDanceActive /\ festival.isSpiralDanceActive) =>
              /\ festival.festivalEndTick = lastPass.f.festivalEndTick
              /\ festival.ticksWithHighHappiness = lastPass.f.ticksWithHighHappiness

\* The tick that took the streak from one below the trigger count started
\* the festival.
C20_Witness ==
    /\ FestivalRan
    /\ ~lastPass.f.isSpiralDanceActive
    /\ AverageWasHigh
    /\ lastPass.f.ticksWithHighHappiness = TICKS_FOR_HIGH_HAPPINESS_TO_TRIGGER_FESTIVAL - 1
    /\ festival.isSpiralDanceActive
    /\ FestivalParticipants # {}

\* the population's average happiness at the pass, compared with a bound
\* given in hundredths
Population == {e \in lastPass.w.eids : e \in lastPass.w.has["Mood"]}
TotalHappiness == SumSeq(lastPass.w.Mood, SetToSortedSeq(Population))

EndDue ==
    \/ lastPass.f.currentTick + 1 >= lastPass.f.festivalEndTick
    \/ TotalHappiness < HAPPINESS_LOW_THRESHOLD * Cardinality(Population)

\* C22: while the festival is Active (and the population is not empty), the
\* tick at which the tick counter has reached the end tick or the average is
\* below the lower threshold makes the festival Inactive and clears the tag
\* of every participant; any other tick leaves it Active and the tags alone.
C22_FestivalEnds ==
    FestivalRan /\ lastPass.f.isSpiralDanceActive /\ Population # {} =>
        IF EndDue
        THEN /\ ~festival.isSpiralDanceActive
             /\ \A e \in FestivalParticipants : world.CulturalTag[e] = 0
             /\ world.Velocity = lastPass.w.Velocity
        ELSE /\ festival.isSpiralDanceActive
             /\ world.CulturalTag = lastPass.w.CulturalTag

\* A festival ended at its end tick although the population was as happy as
\* ever, and its dancers lost their tags.
C22_Witness ==
    /\ FestivalRan
    /\ lastPass.f.isSpiralDanceActive
    /\ lastPass.f.currentTick + 1 = lastPass.f.festivalEndTick
    /\ AverageWasHigh
    /\ ~festival.isSpiralDanceActive
    /\ \E e \in FestivalParticipants : lastPass.w.CulturalTag[e] = 1 /\ world.CulturalTag[e] = 0

\* C23: a festival tick on a world in which no entity carries Mood changes
\* none of the four festival scalars and no component value.
C23_EmptyPopulationSkipped ==
    FestivalRan /\ Population = {} => festival = lastPass.f /\ world = lastPass.w

\* C31: while the festival is Active and the tick counter, after this
\* tick's increment, is still below the end tick, a tick whose average
\* happiness is at or above the lower threshold and not above the high one
\* leaves the festival Active, with the dancer tags and the end tick as
\* they were.
C31_FestivalHysteresis ==
    ( /\ FestivalRan /\ lastPass.f.isSpiralDanceActive /\ Population # {}
      /\ lastPass.f.currentTick + 1 < lastPass.f.festivalEndTick
      /\ TotalHappiness >= HAPPINESS_LOW_THRESHOLD * Cardinality(Population)
      /\ TotalHappiness <= HAPPINESS_THRESHOLD * Cardinality(Population) )
        => /\ festival.isSpiralDanceActive
           /\ festival.festivalEndTick = lastPass.f.festivalEndTick
           /\ world.CulturalTag = lastPass.w.CulturalTag

\* A festival went on through a tick whose average was exactly the lower
\* threshold, its dancers still tagged.
C31_Witness ==
    /\ FestivalRan /\ lastPass.f.isSpiralDanceActive
    /\ Population # {}
    /\ lastPass.f.currentTick + 1 < lastPass.f.festivalEndTick
    /\ TotalHappiness = HAPPINESS_LOW_THRESHOLD * Cardinality(Population)
    /\ festival.isSpiralDanceActive
    /\ \E e \in FestivalParticipants : world.CulturalTag[e] = 1

\* C37: after every festival tick the streak counter is at least 0 and
\* below the trigger count, and under an Active festival the streak counter
\* is 0 and the tick counter is below the recorded end tick.
C37_FestivalCounters ==
    FestivalRan =>
        /\ 0 <= festival.ticksWithHighHappiness
        /\ festival.ticksWithHighHappiness < TICKS_FOR_HIGH_HAPPINESS_TO_TRIGGER_FESTIVAL
        /\ festival.isSpiralDanceActive =>
              /\ festival.ticksWithHighHappiness = 0
              /\ festival.currentTick < festival.festivalEndTick

\* The tick that took the streak from one below the trigger count to a
\* festival: the streak is back at 0 and the end tick lies a whole festival
\* ahead of the tick counter.
C37_Witness ==
    /\ FestivalRan
    /\ lastPass.f.ticksWithHighHappiness = TICKS_FOR_HIGH_HAPPINESS_TO_TRIGGER_FESTIVAL - 1
    /\ festival.isSpiralDanceActive
    /\ festival.ticksWithHighHappiness = 0
    /\ festival.currentTick < festival.festivalEndTick

\* the festival has at most two ticks left before its end tick
FestivalNearEnd ==
    /\ festival.isSpiralDanceActive
    /\ festival.festivalEndTick = FestivalStartTick + FESTIVAL_DURATION_TICKS
    /\ festival.currentTick >= festival.festivalEndTick - 2
    /\ \E e \in world.eids : e \in world.has["Mood"]

\* C38: a festival that became Active at tick T is, as ticks keep running,
\* Inactive no later than the tick at which the tick counter equals
\* T + FESTIVAL_DURATION_TICKS, however happy the population is.
C38_EveryFestivalEnds ==
    FestivalNearEnd ~> (~festival.isSpiralDanceActive /\ festival.currentTick <= festival.festivalEndTick)

\* A festival of a population as happy as ever was followed over its last
\* two ticks and ended when the counter reached its end tick.
C38_Witness ==
    /\ FestivalRan /\ lastPass.steps = 2
    /\ lastPass.f.isSpiralDanceActive
    /\ AverageWasHigh
    /\ ~festival.isSpiralDanceActive
    /\ festival.currentTick = FestivalStartTick + FESTIVAL_DURATION_TICKS

(***************************************************************************)
(* Saving and loading in a running session                                 *)
(***************************************************************************)
\* The state an earlier session saved in the middle of a festival: every
\* entity content and tagged as a dancer, entities 0 and 1 acquainted.
SnapshotInFestival ==
    LET f == [initializeFestivalState EXCEPT !.isSpiralDanceActive = TRUE,
                                             !.festivalEndTick = FestivalStartTick + FESTIVAL_DURATION_TICKS,
                                             !.currentTick = FestivalStartTick + 1]
    IN  FullState(FestivalWorld([e \in Ids |-> 90], f),
                  updateRelationshipStrength(EmptyRelationships, 0, 1, 5),
                  f)

\* What the store holds when the session starts: nothing, bytes that do not
\* decompress, a snapshot, a snapshot without entities, and objects that
\* lack a member of the snapshot or carry a relationship list that is none.
StoredBlobs ==
    {NoSnapshot, Corrupt, EarlierSnapshot, [EarlierSnapshot EXCEPT !.eids = {}]}
      \cup {Damaged(SnapshotInFestival, faults) :
               faults \in {{}, {"components"}, {"systems"}, {"social"}, {"festival"}, {"relationships"}}}

InitRestore ==
    /\ world = initializeEntities([e \in 0 .. (NUM_ENTITIES - 1) |-> <<100 * e, 0, 0>>],
                                  [e \in 0 .. (NUM_ENTITIES - 1) |-> <<10, 0, 0>>],
                                  [e \in 0 .. (NUM_ENTITIES - 1) |-> 70 * ENERGY_UNIT])
    /\ rules = << DigestionRule(5 * ENERGY_UNIT, 10) >>
    /\ SOCIAL_RULES = << GroomRule({-50}, 10, -ENERGY_UNIT, 5) >>
    /\ phase = "running"
    /\ opLog = << [op |-> "start", outcome |-> "unavailable", error |-> "gpu-init-failed"] >>
    /\ boidsConfig = DefaultBoidsConfig
    /\ lastTickTime = 0
    /\ isBoidsGpuSystemReady = FALSE
    /\ gpuResources = FALSE
    /\ criticalErrorMessage = "gpu-init-failed"
    /\ isSaving = FALSE
    /\ lastSaveTime = 0
    /\ db \in StoredBlobs
    /\ pendingSaves = << >>
    /\ pendingReinit = FALSE
    /\ now = 0
    /\ ticks = << >>
    /\ lastCallback = [elapsed |-> -1, started |-> 0, advance |-> 0]
    /\ cmp = NoComparison
    /\ lastPass = NoPass
    /\ relationshipStrengths = EmptyRelationships
    /\ festival = initializeFestivalState
    /\ boundary = FullState(world, relationshipStrengths, festival)

\* In a restored festival every dancer is taken to be short of its target
\* point along x.
RestoredDances == {[e \in Ids |-> <<SPIRAL_SPEED, 0, 0>>]}

\* Ticks on the CPU path, the autosave timer and the load key.
NextRestore ==
    \/ \E lucky \in ForageDraws, dance \in RestoredDances : GameLoop(TICK_INTERVAL, lucky, dance)
    \/ SaveBegin
    \/ \E stored \in BOOLEAN : SaveEnd(stored)
    \/ \E in \in LoadInputs : LoadState(in[1], in[2])
    \/ \E outcome \in NoGpuOutcomes : Reinitialize(outcome)

SpecRestore == InitRestore /\ [][NextRestore]_vars

\* The engine of Spec with the autosave timer of main.tsx.
NextAutosave ==
    \/ \E outcome \in InitOutcomes : StartEngineLoop(outcome)
    \/ \E d \in ClockSteps, lucky \in ForageDraws, dance \in DanceChoices(festival) : GameLoop(d, lucky, dance)
    \/ \E i \in Awaiting, lucky \in ForageDraws, dance \in DanceChoices(festival) : MapAsyncResolve(i, lucky, dance)
    \/ \E i \in Awaiting : MapAsyncReject(i)
    \/ SaveBegin
    \/ \E stored \in BOOLEAN : SaveEnd(stored)

SpecAutosave == Init /\ [][NextAutosave]_vars

\* A session after the load that App runs at start-up, which found a
\* snapshot of an earlier session, whole or without the arrays of Mood (as a
\* build that did not persist Mood stored it).  The autosave timer and the
\* load key are followed; no tick is run.
StartupBlobs == {Damaged(EarlierSnapshot, {}), Damaged(EarlierSnapshot, {"Mood"})}

InitMembership ==
    /\ db \in StartupBlobs
    /\ \E m \in EidMaps(db.eids) :
          /\ world = RestoreComponents(db, m)
          /\ relationshipStrengths = RestoreSystems(db, m).rel
          /\ festival = RestoreSystems(db, m).f
    /\ rules = << DigestionRule(5 * ENERGY_UNIT, 10) >>
    /\ SOCIAL_RULES = << GroomRule({-50}, 10, -ENERGY_UNIT, 5) >>
    /\ phase = "running"
    /\ opLog = << [op |-> "start", outcome |-> "unavailable", error |-> "gpu-init-failed"] >>
    /\ boidsConfig = DefaultBoidsConfig
    /\ lastTickTime = 0
    /\ isBoidsGpuSystemReady = FALSE
    /\ gpuResources = FALSE
    /\ criticalErrorMessage = "gpu-init-failed"
    /\ isSaving = FALSE
    /\ lastSaveTime = 0
    /\ pendingSaves = << >>
    /\ pendingReinit = FALSE
    /\ now = 0
    /\ ticks = << >>
    /\ lastCallback = [elapsed |-> -1, started |-> 0, advance |-> 0]
    /\ cmp = NoComparison
    /\ lastPass = NoPass
    /\ boundary = FullState(world, relationshipStrengths, festival)

NextMembership ==
    \/ SaveBegin
    \/ \E stored \in BOOLEAN : SaveEnd(stored)
    \/ \E in \in LoadInputs : LoadState(in[1], in[2])
    \/ \E outcome \in NoGpuOutcomes : Reinitialize(outcome)

SpecMembership == InitMembership /\ [][NextMembership]_vars

\* The autosave timer on its own: its callbacks come whether or not the
\* store has answered the call before.
InitTimer ==
    /\ \E e0 \in DigestEnergies :
          world = initializeEntities([e \in 0 .. (NUM_ENTITIES - 1) |-> <<100 * e, 0, 0>>],
                                     [e \in 0 .. (NUM_ENTITIES - 1) |-> Zero3],
                                     [e \in 0 .. (NUM_ENTITIES - 1) |-> e0])
    /\ rules = << >>
    /\ SOCIAL_RULES = << >>
    /\ relationshipStrengths = EmptyRelationships
    /\ festival = initializeFestivalState
    /\ phase = "timer"
    /\ InitIdle

NextTimer ==
    \/ SaveBegin
    \/ \E stored \in BOOLEAN : SaveEnd(stored)

SpecTimer == InitTimer /\ [][NextTimer]_vars

(***************************************************************************)
(* Properties of saving and loading                                        *)
(***************************************************************************)
LastOp == opLog[Len(opLog)]

\* a step in which a loadState call returns; db is what the store held
LoadReturns == Len(opLog') = Len(opLog) + 1 /\ opLog'[Len(opLog')].op = "load"
LoadAnswer == opLog'[Len(opLog')].answer
ReturnsTrue == opLog'[Len(opLog')].outcome = "loaded" /\ pendingReinit'
ReturnsFalse == opLog'[Len(opLog')].outcome = "not-loaded" /\ ~pendingReinit'

\* every entity of the snapshot is live under its new id, with the
\* snapshot's value in every field of every persisted component
SameComponents(saved, w, m) ==
    \A e \in saved.eids :
        /\ m[e] \in w.eids
        /\ w.Position[m[e]] = saved.components.Position[e]
        /\ w.Velocity[m[e]] = saved.components.Velocity[e]
        /\ w.Genome[m[e]] = saved.components.Genome[e]
        /\ w.Phenotype[m[e]] = saved.components.Phenotype[e]
        /\ w.Stomach[m[e]] = saved.components.Stomach[e]
        /\ w.Energy[m[e]] = saved.components.Energy[e]
        /\ w.Mood[m[e]] = saved.components.Mood[e]
        /\ w.CulturalTag[m[e]] = saved.components.CulturalTag[e]

\* the same edges with the same weights, ids translated by m
SameGraph(saved, rel, m) ==
    /\ DOMAIN rel = {<<m[p[1]], m[p[2]]>> : p \in DOMAIN saved.relationships}
    /\ \A p \in DOMAIN saved.relationships : rel[<<m[p[1]], m[p[2]]>>] = saved.relationships[p]

C25_NoStateFound ==
    [][ (LoadReturns /\ LoadAnswer = "none")
        => /\ ReturnsFalse
           /\ relationshipStrengths' = initializeSocialState
           /\ festival' = initializeFestivalState
           /\ world' = world
           /\ criticalErrorMessage' = criticalErrorMessage ]_vars

\* A session with acquaintances and ticks behind it pressed the load key
\* over an empty store.
C25_Witness ==
    /\ opLog # << >> /\ LastOp.op = "load" /\ LastOp.answer = "none" /\ LastOp.outcome = "not-loaded"
    /\ Len(ticks) >= 2
    /\ world.eids # {}
    /\ \E e \in world.eids : world.Energy[e].current # 70 * ENERGY_UNIT
    /\ relationshipStrengths = EmptyRelationships
    /\ festival = initializeFestivalState

\* the store's answer makes the try block of loadState throw
LoadThrows ==
    \/ LoadAnswer \in {"rejected", "corrupt"}
    \/ /\ LoadAnswer = "snapshot"
       /\ db.eids # {}
       /\ \/ "components" \in Faults(db)
          \/ "relationships" \in Faults(db) /\ Faults(db) \cap {"systems", "social"} = {}

\* C26: a loadState whose try block throws (dbGet rejects, the bytes do not
\* decompress or parse, the restore meets a malformed object) returns false
\* with the world reset, the relationship graph empty, the festival state
\* default, and the failure recorded in criticalErrorMessage.
C26_FailedLoadResets ==
    [][ (LoadReturns /\ LoadThrows)
        => /\ ReturnsFalse
           /\ world' = BlankWorld
           /\ relationshipStrengths' = initializeSocialState
           /\ festival' = initializeFestivalState
           /\ criticalErrorMessage' = "load-failed" ]_vars

\* A load threw on a malformed relationship list, after the entities and
\* their components had been restored, and left an empty world.
C26_Witness ==
    /\ opLog # << >> /\ LastOp.op = "load" /\ LastOp.answer = "snapshot" /\ LastOp.outcome = "not-loaded"
    /\ "relationships" \in Faults(db)
    /\ db.eids # {}
    /\ world = BlankWorld
    /\ criticalErrorMessage = "load-failed"

\* a step in which a saveState call returns
SaveReturns == Len(pendingSaves') = Len(pendingSaves) - 1

\* C27: a saveState call that returns has either stored its snapshot and
\* set lastSaveTime, or has left the stored snapshot and lastSaveTime as
\* they were and recorded a message; either way isSaving is false and the
\* simulation state is as it was.  lastSaveTime changes in no other step.
C27_FailedSaveLeavesState ==
    [][ /\ SaveReturns
           => /\ ~isSaving'
              /\ world' = world /\ relationshipStrengths' = relationshipStrengths /\ festival' = festival
              /\ \/ /\ db' = Head(pendingSaves) /\ lastSaveTime' = now
                    /\ criticalErrorMessage' = criticalErrorMessage
                 \/ /\ db' = db /\ lastSaveTime' = lastSaveTime
                    /\ criticalErrorMessage' = "save-failed"
        /\ lastSaveTime' # lastSaveTime => SaveReturns /\ db' = Head(pendingSaves) ]_vars

\* A save failed some ticks into a session whose store held a snapshot:
\* the snapshot is still there.
C27_Witness ==
    /\ criticalErrorMessage = "save-failed"
    /\ ~isSaving
    /\ pendingSaves = << >>
    /\ \E i \in 1 .. Len(opLog) : opLog[i].op = "save"
    /\ db = EarlierSnapshot
    /\ lastSaveTime = 0
    /\ now > 0
    /\ ticks # << >>

\* C28: a snapshot without the social sub-object is loaded with the
\* relationship graph from its initializer and the festival scalars from the
\* snapshot; one without the festival sub-object with the festival state
\* from its initializer and the relationship graph from the snapshot.  In
\* both cases the components are restored and loadState returns true.
C28_SectionsFallBackAlone ==
    [][ (LoadReturns /\ LoadAnswer = "snapshot" /\ db.eids # {} /\ Faults(db) \in {{"social"}, {"festival"}})
        => /\ ReturnsTrue
           /\ \E m \in EidMaps(db.eids) :
                 /\ SameComponents(db, world', m)
                 /\ IF Faults(db) = {"social"}
                    THEN relationshipStrengths' = initializeSocialState
                    ELSE SameGraph(db, relationshipStrengths', m)
           /\ IF Faults(db) = {"festival"}
              THEN festival' = initializeFestivalState
              ELSE festival' = db.festival ]_vars

\* A snapshot of a festival, lacking its social sub-object, was loaded: the
\* festival goes on, nobody is acquainted.
C28_Witness ==
    /\ opLog # << >> /\ LastOp.op = "load" /\ LastOp.outcome = "loaded"
    /\ db # NoSnapshot /\ db # Corrupt /\ Faults(db) = {"social"}
    /\ db.relationships # EmptyRelationships
    /\ relationshipStrengths = EmptyRelationships
    /\ festival = db.festival
    /\ festival.isSpiralDanceActive
    /\ world.eids # {}

\* C29: at most one saveState or loadState is in flight at any time: no
\* loadState runs its restore while a saveState awaits the store, and no
\* two saveState calls await the store together.
C29_PersistenceSerialized ==
    /\ Len(pendingSaves) <= 1
    /\ \A i \in 1 .. Len(opLog) : opLog[i].op = "load" => ~opLog[i].duringSave

\* C34: isSaving is true exactly while some saveState call has started and
\* not yet finished.
C34_IsSavingWhileInFlight == isSaving <=> pendingSaves # << >>

\* C36: whenever the festival is Inactive, no entity carries the dancer
\* tag, after any sequence of ticks, saves and loads.
C36_InactiveMeansNoDancer ==
    ~festival.isSpiralDanceActive => \A e \in world.eids : world.CulturalTag[e] = 0

\* C39: after a load of a snapshot that saveState wrote, each restored
\* entity holds a persisted component if and only if its original held that
\* component when the snapshot was captured.
C39_MembershipPreserved ==
    [][ (LoadReturns /\ LoadAnswer = "snapshot" /\ Faults(db) = {} /\ db.eids # {})
        => \E m \in EidMaps(db.eids) :
              /\ world'.eids = {m[e] : e \in db.eids}
              /\ \A e \in db.eids, k \in Comps :
                    m[e] \in world'.has[k] <=> e \in db.components.has[k] ]_vars

\* C40: a tick whose kernel dispatch was awaiting its readback when a
\* loadState restored the world (and returned true) does not afterwards
\* write its results into Position and Velocity and run on: it never
\* completes.
C40_NoWriteBackAfterLoad ==
    \A j \in 1 .. Len(opLog) :
        (opLog[j].op = "load" /\ opLog[j].outcome = "loaded")
            => \A i \in opLog[j].inFlight : ticks[i].status # "done"

\* C30: the snapshot a saveState call captures is the state the latest
\* completed tick left (or the start-up state), also when the call comes
\* while a tick awaits the kernel's readback.
C30_SnapshotAtTickBoundary ==
    [][ Len(pendingSaves') = Len(pendingSaves) + 1
        => pendingSaves'[Len(pendingSaves')] = boundary ]_vars

\* A snapshot captured while a tick awaited the readback, after an earlier
\* tick had completed, has been stored.
C30_Witness ==
    /\ \E i \in 1 .. Len(opLog) : opLog[i].op = "save" /\ opLog[i].midTick
    /\ \E i \in 1 .. Len(ticks) : ticks[i].status = "done"
    /\ db # NoSnapshot
    /\ db = boundary

(***************************************************************************)
(* Properties of the scheduler                                             *)
(***************************************************************************)
CallbackSeen == lastCallback.elapsed >= 0

C5_AdvancesByWholeIntervals ==
    CallbackSeen /\ lastCallback.started = 1 =>
        lastCallback.advance = (lastCallback.elapsed \div TICK_INTERVAL) * TICK_INTERVAL

\* C5, as stated: a callback that starts a tick advances lastTickTime by
\* exactly TICK_INTERVAL, also when two or more intervals have elapsed.
C5_AdvancesByOneInterval ==
    CallbackSeen /\ lastCallback.started = 1 => lastCallback.advance = TICK_INTERVAL

\* A tick started after 2.5 intervals: lastTickTime moved by two of them.
C5_Witness ==
    /\ lastCallback.started = 1
    /\ lastCallback.elapsed > 2 * TICK_INTERVAL
    /\ lastCallback.advance = 2 * TICK_INTERVAL

\* C35: after every callback that starts a tick, 0 <= now - lastTickTime <
\* TICK_INTERVAL: only the remainder below one interval is kept, whole
\* missed intervals are dropped.
C35_OnlyRemainderKept ==
    CallbackSeen /\ lastCallback.started = 1 =>
        /\ 0 <= now - lastTickTime
        /\ now - lastTickTime < TICK_INTERVAL

\* A callback that came 2.5 intervals after the last tick time started one
\* tick and kept half an interval.
C35_Witness ==
    /\ lastCallback.started = 1
    /\ lastCallback.elapsed >= 2 * TICK_INTERVAL
    /\ now - lastTickTime > 0
    /\ now - lastTickTime < TICK_INTERVAL

\* C6: every tick that has ended ran Movement, Metabolism, Foraging, Social
\* and Festival once each, in that order.
C6_FixedOrder ==
    \A i \in 1 .. Len(ticks) : ticks[i].status # "awaiting" => ticks[i].order = SystemOrder

\* C7: ticks never overlap: no tick starts (and marshals Position and
\* Velocity) while an earlier tick's dispatch-and-readback is in flight.
C7_NoOverlap == \A i \in 1 .. Len(ticks) : ~ticks[i].inFlightAtStart

\* C9: once a tick's kernel dispatch has failed, the kernel is disabled, the
\* failure is reported, and the tick still ran all its systems.
C9_FailureDisablesKernel ==
    \A i \in 1 .. Len(ticks) :
        ticks[i].status = "failed" =>
            /\ ~isBoidsGpuSystemReady
            /\ criticalErrorMessage # NoError
            /\ ticks[i].order = SystemOrder

StartFailed == opLog # << >> /\ opLog[1].op = "start" /\ opLog[1].outcome # "ready"
ReinitSucceeded == \E i \in 1 .. Len(opLog) : opLog[i].op = "reinit" /\ opLog[i].outcome = "ready"
AllTicksOnCpu == \A i \in 1 .. Len(ticks) : ticks[i].path = "cpu" /\ ticks[i].order = SystemOrder

\* C8, as the code has it: after a kernel initialisation that returned false
\* or threw, the loop runs, a message is recorded, and for as long as no
\* reinitialisation after a load has succeeded the flag is false and every
\* tick runs CPU movement followed by the other four systems.
C8_CpuUntilReinitialized ==
    StartFailed =>
        /\ phase = "running"
        /\ opLog[1].error # NoError
        /\ ~ReinitSucceeded => (~isBoidsGpuSystemReady /\ AllTicksOnCpu)

\* C8, as stated: after a failed kernel initialisation the flag is false
\* and every subsequent tick uses CPU movement.
C8_CpuForever ==
    StartFailed =>
        /\ phase = "running"
        /\ opLog[1].error # NoError
        /\ ~isBoidsGpuSystemReady
        /\ AllTicksOnCpu

\* A tick on the CPU path after a failed start, a load and a failed
\* reinitialisation.
C8_Witness ==
    /\ StartFailed
    /\ \E i \in 1 .. Len(opLog) : opLog[i].op = "reinit" /\ opLog[i].outcome # "ready"
    /\ ticks # << >> /\ ticks[Len(ticks)].path = "cpu" /\ ticks[Len(ticks)].status = "done"

====
